---- MODULE Spec2Model ----
(***************************************************************************)
(* Model of the Cornell research scraper: the faculty persistence upsert,  *)
(* the HTML fetcher and LLM extractor of lab_pages.py with its batch       *)
(* variant, the directory paginator and parser of faculty_scraper.py, the  *)
(* merge-by-name loop, the publications upsert, and the publication        *)
(* pipeline of scrape_all.py (fetch_with_retry and the department run).    *)
(* Each component has its own specification over the shared variables; the *)
(* variables of the components it does not call stay at their idle values. *)
(* SpecPersist covers both tables: a run writes one of them.               *)
(***************************************************************************)
EXTENDS Integers, Sequences, FiniteSets, TLC

\* Python's None / SQL NULL.  The empty string "" is a different value.
Null == "None"

\* ------------------------------------------------------------------------
\* Bounds of the model
\* ------------------------------------------------------------------------
\* records written to the faculty table over a run of store_faculty calls
MaxWrites == 3
\* length of the faculty_list of one store_faculty call
MaxBatch == 2
\* store_faculty calls in one run
MaxCalls == 3
\* largest configured HTMLFetcher.max_retries (the default is 3)
MaxRetriesCfg == 3
\* elements (cards and anchors) of a directory page handed to the parser
MaxItems == 3
\* pages of real listings a directory site has
MaxChunks == 2
\* candidates the merge-by-name loop processes in one run
MaxOccurrences == 3
\* configured HTMLFetcher.retry_delay values (the default is 1.0)
RetryDelays == {1, 2}

VARIABLES
  faculty,      \* the faculty table: a sequence of rows, in insertion order
  written,      \* history: every record passed to INSERT, in execution order
  clock,        \* datetime.now() of the next store_faculty call
  stored        \* return value of the last store_faculty call (Null before)

\* HTMLFetcher.fetch and LabPageExtractor.extract (lab_pages.py)
VARIABLES
  max_retries,  \* HTMLFetcher.max_retries
  retry_delay,  \* HTMLFetcher.retry_delay
  xpc,          \* position in extract: "idle", "loop" (head of fetch's for loop),
                \* "fetched" (fetch returned), "done" (extract returned or raised)
  attempt,      \* fetch: the loop variable
  last_error,   \* fetch: last_error
  events,       \* history: the GETs, sleeps and LLM calls made, in order
  fetched,      \* what fetch returned: [html, error]
  llm_response, \* history: what extract_structured did (NoJson("none"): not called)
  result        \* what extract returned, or the exception it raised

\* parse_faculty_generic on one directory page (faculty_scraper.py)
VARIABLES
  page_html,    \* the page handed to parse_faculty_generic
  base_url,     \* its base_url argument
  ppc,          \* "idle", "call" (before the call), "parsed" (returned)
  faculty_list  \* the list parse_faculty_generic returned

\* extract_all_pages and parse_all_faculty_pages on one directory
VARIABLES
  server,           \* how the directory's web server answers (fixed for a run)
  gpc,              \* "idle", "base", "paging", "fetched" (extract_all_pages
                    \* returned), "enrich" (the profile loop), "done"
  page_num,         \* extract_all_pages: page_num
  pages,            \* extract_all_pages: pages
  requests,         \* history: the directory pages requested (0: the base URL,
                    \* N: base?page=N), in order
  all_faculty,      \* parse_all_faculty_pages: all_faculty
  enrich_i,         \* parse_all_faculty_pages: index of the profile loop
  profile_requests  \* history: the profile URLs requested, in order

\* The merge-by-name loop of faculty_scraper.py's __main__
VARIABLES
  merged,       \* __main__: all_faculty
  seen_names,   \* __main__: seen_names
  occurrences   \* history: the candidates the loop has processed, in order


\* LabPageExtractor.extract_batch (lab_pages.py)
VARIABLES
  urls,                    \* the urls argument
  delay_between_requests,  \* the delay argument, in tenths of a second
  bpc,                     \* "idle", "loop" (head of the for loop), "done"
                           \* (returned), "raised" (an exception left the call)
  batch_i,                 \* the loop index i
  results,                 \* results
  batch_log                \* history: the extract calls and sleeps, in order


\* store_publications (publications_db.py)
VARIABLES
  publications,  \* the publications table: a sequence of rows, in insertion order
  pub_written,   \* history: every Publication passed to INSERT, in execution order
  pub_stored     \* return value of the last store_publications call (Null before)


\* fetch_with_retry (scrape_all.py) with scrape_and_store_publications and
\* fetch_top_publications (publications.py)
VARIABLES
  fw_name,          \* fetch_with_retry: the name argument
  fw_max_retries,   \* fetch_with_retry: max_retries
  initial_backoff,  \* fetch_with_retry: initial_backoff, in seconds
  backoff,          \* fetch_with_retry: backoff
  fw_attempt,       \* fetch_with_retry: the loop variable attempt
  fpc,              \* "idle", "loop" (head of the for loop), "returned"
  fw_log,           \* history: the fetches (with the pair each returned) and
                    \* sleeps of the current call, in order
  fw_return,        \* the pair (count, error) fetch_with_retry returned
  pub_clock         \* datetime.now() of the next fetch_top_publications


\* scrape_department_publications (scrape_all.py)
VARIABLES
  department_key,  \* the department_key argument
  dept_delay,      \* the delay_between_requests argument, in seconds
  dpc,             \* "idle", "start", "directory" (in parse_all_faculty_pages),
                   \* "loop" (head of the candidate loop), "fetching" (in
                   \* fetch_with_retry), "unknown key", "no faculty" (the two
                   \* early returns), "done" (after the final summary)
  cand_i,          \* the loop index i (from 1)
  success_count,   \* success_count
  error_count,     \* error_count
  dept_log         \* history: per candidate the fetch_with_retry call, the pair
                   \* it returned and the sleep after it, in order

storeVars == <<faculty, written, clock, stored>>
mergeVars == <<merged, seen_names, occurrences>>
dirVars == <<server, gpc, page_num, pages, requests, all_faculty, enrich_i, profile_requests>>
parseVars == <<page_html, base_url, ppc, faculty_list>>
extractVars == <<max_retries, retry_delay, xpc, attempt, last_error, events, fetched,
                 llm_response, result>>
batchVars == <<urls, delay_between_requests, bpc, batch_i, results, batch_log>>
pubVars == <<publications, pub_written, pub_stored>>
retryVars == <<fw_name, fw_max_retries, initial_backoff, backoff, fw_attempt, fpc, fw_log, fw_return, pub_clock>>
deptVars == <<department_key, dept_delay, dpc, cand_i, success_count, error_count, dept_log>>
vars == <<faculty, written, clock, stored,
          max_retries, retry_delay, xpc, attempt, last_error, events, fetched,
          llm_response, result,
          page_html, base_url, ppc, faculty_list,
          server, gpc, page_num, pages, requests, all_faculty, enrich_i, profile_requests,
          merged, seen_names, occurrences,
          urls, delay_between_requests, bpc, batch_i, results, batch_log,
          publications, pub_written, pub_stored,
          fw_name, fw_max_retries, initial_backoff, backoff, fw_attempt, fpc, fw_log, fw_return, pub_clock,
          department_key, dept_delay, dpc, cand_i, success_count, error_count, dept_log>>

\* ------------------------------------------------------------------------
\* faculty_db.py: store_faculty
\* ------------------------------------------------------------------------
\* The dicts the scraper hands to store_faculty.  Names are never None: both
\* parser strategies drop a card whose name is empty.
FacultyDicts ==
  { [name |-> "A", website |-> Null, email |-> Null, department |-> Null, profile_url |-> Null],
    [name |-> "A", website |-> "w1", email |-> Null, department |-> Null, profile_url |-> "p1"],
    [name |-> "A", website |-> Null, email |-> "e1", department |-> "d1", profile_url |-> Null],
    [name |-> "A", website |-> "w2", email |-> "e2", department |-> Null, profile_url |-> Null],
    [name |-> "A", website |-> "", email |-> Null, department |-> "d2", profile_url |-> "p2"],
    [name |-> "B", website |-> "w1", email |-> Null, department |-> "d1", profile_url |-> Null],
    [name |-> "B", website |-> Null, email |-> "e1", department |-> Null, profile_url |-> "p1"],
    [name |-> "B", website |-> Null, email |-> Null, department |-> Null, profile_url |-> Null] }

FacultyLists ==
  UNION { [1..n -> FacultyDicts] : n \in 0..MaxBatch }

\* SQL COALESCE(excluded.x, faculty.x): the first argument unless it is NULL.
CoalesceOverwrite(excluded, existing) == excluded

Coalesce(excluded, existing) ==
  IF excluded # Null THEN excluded ELSE existing

\* The row the VALUES clause builds from a dict (f.get("website") is stored in
\* the column website_url).
ValuesRow(f, now) ==
  [name |-> f.name, website_url |-> f.website, email |-> f.email,
   department |-> f.department, profile_url |-> f.profile_url,
   updated_at |-> now]

\* ON CONFLICT(name) DO UPDATE SET ...
DoUpdate(row, excluded) ==
  [name |-> row.name,
   website_url |-> Coalesce(excluded.website_url, row.website_url),
   email |-> Coalesce(excluded.email, row.email),
   department |-> Coalesce(excluded.department, row.department),
   profile_url |-> Coalesce(excluded.profile_url, row.profile_url),
   updated_at |-> excluded.updated_at]

\* One INSERT ... ON CONFLICT(name) DO UPDATE statement.
UpsertInsertOnly(table, excluded) == Append(table, excluded)

Upsert(table, excluded) ==
  IF \E i \in 1..Len(table) : table[i].name = excluded.name
    THEN [i \in 1..Len(table) |->
            IF table[i].name = excluded.name
              THEN DoUpdate(table[i], excluded) ELSE table[i]]
    ELSE Append(table, excluded)

\* The loop of store_faculty over faculty_list, then commit.
RECURSIVE StoreFacultyRows(_, _, _)
StoreFacultyRows(table, list, now) ==
  IF list = <<>> THEN table
  ELSE StoreFacultyRows(Upsert(table, ValuesRow(Head(list), now)), Tail(list), now)

store_faculty(list) ==
  /\ clock < MaxCalls
  /\ Len(written) + Len(list) <= MaxWrites
  /\ faculty' = StoreFacultyRows(faculty, list, clock)
  /\ written' = written \o list
  /\ clock' = clock + 1
  /\ stored' = Len(list)

  /\ UNCHANGED <<extractVars, parseVars, dirVars, mergeVars, batchVars, pubVars, retryVars, deptVars>>

StoreIdle ==
  /\ faculty = <<>>
  /\ written = <<>>
  /\ clock = 0
  /\ stored = Null

\* ------------------------------------------------------------------------
\* lab_pages.py: HTMLFetcher.fetch
\* ------------------------------------------------------------------------
\* HTMLFetcher.__init__: timeout = 30
Timeout == 30

\* A page body is the sequence of its elements in document order: the tag, the
\* length of the stripped visible text and the href attribute (Null if none).
El(tag, len, href) == [tag |-> tag, len |-> len, href |-> href]

Bodies ==
  { <<>>,
    << El("script", 40, Null), El("nav", 25, Null) >>,
    << El("p", 8, Null), El("a", 2, "/x"), El("td", 30, Null) >>,
    << El("h1", 12, Null), El("p", 60, Null) >>,
    << El("a", 9, "/pubs"), El("a", 14, "") >> }

\* What session.get followed by raise_for_status does on one attempt.
Get(kind, status, body, msg) == [kind |-> kind, status |-> status, body |-> body, msg |-> msg]

GetOutcomes ==
  { Get("ok", 200, b, Null) : b \in Bodies }
  \cup { Get("timeout", 0, <<>>, Null) }
  \cup { Get("http", st, <<>>, Null) : st \in {404, 403, 410, 500, 429} }
  \cup { Get("request", 0, <<>>, m) : m \in {"Connection refused", ""} }

\* except HTTPError: `if e.response.status_code in (404, 403, 410): break`
IsPermanentNo410(status) == status \in {404, 403}

IsPermanent(status) == status \in {404, 403, 410}

\* The message each except clause leaves in last_error.
StatusText(status) ==
  CASE status = 404 -> "HTTP 404" [] status = 403 -> "HTTP 403"
    [] status = 410 -> "HTTP 410" [] status = 500 -> "HTTP 500"
    [] status = 429 -> "HTTP 429"

ErrorText(o) ==
  CASE o.kind = "timeout" -> "Timeout after 30s"
    [] o.kind = "http" -> StatusText(o.status)
    [] o.kind = "request" -> o.msg

\* `if attempt < self.max_retries - 1`
ShouldSleep(a, m) == a < m - 1

\* `self.retry_delay * (attempt + 1)`
SleepDelayZeroBased(a, d) == d * a

SleepDelay(a, d) == d * (a + 1)

\* History entries: a GET (attempt number, outcome), a sleep (seconds), an
\* LLM call.
NoGet == Get("none", 0, <<>>, Null)
Event(kind, k, what) == [kind |-> kind, k |-> k, what |-> what]

\* The pair fetch returns; html_none tells html = None from the empty page.
NoFetch == [html |-> <<>>, html_none |-> TRUE, error |-> Null]
FetchedHtml(html) == [html |-> html, html_none |-> FALSE, error |-> Null]
FetchedError(error) == [html |-> <<>>, html_none |-> TRUE, error |-> error]

\* One iteration of `for attempt in range(self.max_retries)`.
FetchAttempt(o) ==
  /\ xpc = "loop"
  /\ attempt < max_retries
  /\ LET got == Event("get", attempt + 1, o) IN
     IF o.kind = "ok"
       THEN /\ events' = Append(events, got)
            /\ fetched' = FetchedHtml(o.body)
            /\ xpc' = "fetched"
            /\ UNCHANGED <<attempt, last_error>>
       ELSE /\ last_error' = ErrorText(o)
            /\ IF o.kind = "http" /\ IsPermanent(o.status)
                 THEN /\ events' = Append(events, got)
                      /\ fetched' = FetchedError(ErrorText(o))
                      /\ xpc' = "fetched"
                      /\ UNCHANGED attempt
                 ELSE /\ events' =
                           IF ShouldSleep(attempt, max_retries)
                             THEN events \o
                                  << got, Event("sleep", SleepDelay(attempt, retry_delay), NoGet) >>
                             ELSE Append(events, got)
                      /\ attempt' = attempt + 1
                      /\ UNCHANGED <<fetched, xpc>>
  /\ UNCHANGED <<max_retries, retry_delay, llm_response, result>>
  /\ UNCHANGED <<storeVars, parseVars, dirVars, mergeVars, batchVars, pubVars, retryVars, deptVars>>

\* The for loop is exhausted: `return None, last_error`.
FetchLoopExit ==
  /\ xpc = "loop"
  /\ attempt >= max_retries
  /\ fetched' = FetchedError(last_error)
  /\ xpc' = "fetched"
  /\ UNCHANGED <<max_retries, retry_delay, attempt, last_error, events, llm_response, result>>
  /\ UNCHANGED <<storeVars, parseVars, dirVars, mergeVars, batchVars, pubVars, retryVars, deptVars>>

\* ------------------------------------------------------------------------
\* lab_pages.py: HTMLFetcher.clean_html_for_llm
\* ------------------------------------------------------------------------
RemovedTags == {"script", "style", "nav", "footer", "header", "aside", "noscript", "iframe"}
WalkedTags == {"p", "h1", "h2", "h3", "h4", "li", "a", "div", "span"}

\* Python truthiness of an Optional[str].
Truthy(v) == v # Null /\ v # ""

\* The text parts an element contributes.
Fragment(e) ==
  IF e.tag \in RemovedTags \/ e.tag \notin WalkedTags THEN <<>>
  ELSE IF e.tag = "a" /\ Truthy(e.href)
         THEN IF e.len > 2 THEN << [link |-> e.href, len |-> e.len] >> ELSE <<>>
         ELSE IF e.len > 10 THEN << [link |-> Null, len |-> e.len] >> ELSE <<>>

RECURSIVE clean_html_for_llm(_)
clean_html_for_llm(html) ==
  IF html = <<>> THEN <<>>
  ELSE Fragment(Head(html)) \o clean_html_for_llm(Tail(html))

\* `not cleaned_html.strip()`: the parts are stripped non-empty texts joined by
\* newlines, so the cleaned text is blank exactly when there is no part.
IsBlankNone(cleaned) == FALSE

IsBlank(cleaned) == cleaned = <<>>

\* ------------------------------------------------------------------------
\* lab_pages.py: OpenAIExtractor.extract_structured, LabPageExtractor.extract
\* ------------------------------------------------------------------------
\* A dict key that is missing.
Absent == "<absent>"
\* A JSON value of a type the field does not accept (a list for a string, a
\* string for the list research_areas).
WrongType == "<wrong type>"

\* A URL-typed value: a URL split into scheme, host and path ("rel" marks a
\* relative reference), or one of None, "", missing, wrong-typed.
Url(scheme, host, path) == [scheme |-> scheme, host |-> host, path |-> path]
NoUrl == Url(Null, Null, Null)
EmptyUrl == Url("", "", "")
AbsentUrl == Url(Absent, Absent, Absent)
WrongUrl == Url(WrongType, WrongType, WrongType)
RaisedUrl == Url("raise", "raise", "raise")

\* The URL handed to extract.
SourceUrl == Url("https", "lab.cornell.edu", "/group/")

\* A value for research_areas: a list of strings, or None, missing, wrong-typed.
Areas(items) == [t |-> "list", items |-> items]
NoAreas == [t |-> Null, items |-> <<>>]
AbsentAreas == [t |-> Absent, items |-> <<>>]
WrongAreas == [t |-> WrongType, items |-> <<>>]

Json(summary, areas, lab, pubs, site) ==
  [kind |-> "json", research_summary |-> summary, research_areas |-> areas,
   lab_url |-> lab, publications_url |-> pubs, personal_site_url |-> site]

NoJson(kind) ==
  [kind |-> kind, research_summary |-> Absent, research_areas |-> AbsentAreas,
   lab_url |-> AbsentUrl, publications_url |-> AbsentUrl, personal_site_url |-> AbsentUrl]

\* What extract_structured does: it raises (the client's exception, or
\* JSONDecodeError from json.loads), or returns the decoded JSON value.
LLMResponses ==
  { NoJson("client error"), NoJson("invalid json"), NoJson("not an object"),
    Json("summary", Areas(<<"ml", "ml">>), Url("https", "lab.org", "/"), NoUrl, AbsentUrl),
    Json(Null, Areas(<<>>), Url("rel", "", "/pubs"), Url("http", "x.org", "/p"), NoUrl),
    Json(Absent, AbsentAreas, AbsentUrl, AbsentUrl, AbsentUrl),
    Json("summary", NoAreas, NoUrl, NoUrl, NoUrl),
    Json("summary", Areas(<<"ml">>), Url("mailto", "", "a@b"), EmptyUrl, NoUrl),
    Json(WrongType, Areas(<<"ml">>), NoUrl, NoUrl, NoUrl),
    Json("summary", WrongAreas, NoUrl, NoUrl, NoUrl),
    Json("summary", Areas(<<"ml">>), NoUrl, WrongUrl, NoUrl) }

\* dict.get(key): None for a missing key.
DictGet(v) == IF v = Absent THEN Null ELSE v
DictGetUrl(v) == IF v = AbsentUrl THEN NoUrl ELSE v

\* urljoin(base_url, url) for a url that does not start with http:// or
\* https://: a reference with a scheme of its own is returned as it is, a
\* relative one takes the base's scheme and host.
UrlJoin(base, url) ==
  IF url.scheme = "rel" THEN Url(base.scheme, base.host, url.path) ELSE url

IsHttp(url) == url.scheme \in {"http", "https"}

\* _resolve_urls on one field; RaisedUrl when url.startswith fails on a
\* non-string.
ResolveUrl(v, base) ==
  IF v \in {AbsentUrl, NoUrl, EmptyUrl} THEN v
  ELSE IF v = WrongUrl THEN RaisedUrl
  ELSE IF IsHttp(v) THEN v ELSE UrlJoin(base, v)

\* An error_message: the fixed text and the detail formatted into it.
Message(text, detail) == [text |-> text, detail |-> detail]
NoMessage == Message(Null, Null)

\* A LabPageExtractionResult (raised = Null), or the exception extract raised.
Result(ok, summary, areas, lab, pubs, site, msg) ==
  [raised |-> Null, source_url |-> SourceUrl, extraction_successful |-> ok,
   research_summary |-> summary, research_areas |-> areas,
   lab_url |-> lab, publications_url |-> pubs, personal_site_url |-> site,
   error_message |-> msg]

Failure(msg) == Result(FALSE, Null, <<>>, NoUrl, NoUrl, NoUrl, msg)

Raised(exc) == [Failure(NoMessage) EXCEPT !.raised = exc]

NoResult == Raised("<no result>")

\* pydantic's validation of LabPageExtractionResult's fields.
ValidStr(v) == v # WrongType
ValidList(v) == v.t = "list"

\* `source_url=url` in each constructor call of extract.
WithSource(res, url) == [res EXCEPT !.source_url = url]

\* The try block of extract(url), given what extract_structured did.
ExtractFromLLM(r, url) ==
  IF r.kind = "client error" THEN Failure(Message("LLM extraction failed: ", "APIError"))
  ELSE IF r.kind = "invalid json"
    THEN Failure(Message("Failed to parse LLM response as JSON: ", "JSONDecodeError"))
  ELSE IF r.kind = "not an object"
    THEN Failure(Message("LLM extraction failed: ", "AttributeError"))
  ELSE LET lab == ResolveUrl(r.lab_url, url)
           pubs == ResolveUrl(r.publications_url, url)
           site == ResolveUrl(r.personal_site_url, url)
           areas == IF r.research_areas = AbsentAreas THEN Areas(<<>>) ELSE r.research_areas
       IN IF RaisedUrl \in {lab, pubs, site}
            THEN Failure(Message("LLM extraction failed: ", "AttributeError"))
          ELSE IF ~ (ValidStr(r.research_summary) /\ ValidList(areas))
            THEN Failure(Message("LLM extraction failed: ", "ValidationError"))
          ELSE Result(TRUE, DictGet(r.research_summary), areas.items,
                      DictGetUrl(lab), DictGetUrl(pubs), DictGetUrl(site), NoMessage)

\* `if fetch_error:` is a truthiness test.
FetchFailed(error) == Truthy(error)

LLMCall == Event("llm", 0, NoGet)

\* extract(url) from the return of fetch (f) to its own return: the result, or
\* the exception raised, and whether extract_structured was called.
Outcome(res, called) == [result |-> res, called |-> called]

ExtractOutcome(f, r, url) ==
  IF FetchFailed(f.error)
    THEN Outcome(WithSource(Failure(Message("Failed to fetch page: ", f.error)), url), FALSE)
  ELSE IF f.html_none
    \* BeautifulSoup(None, "html.parser") raises TypeError, outside the try
    THEN Outcome(Raised("TypeError"), FALSE)
  ELSE IF IsBlank(clean_html_for_llm(f.html))
    THEN Outcome(WithSource(Result(TRUE, Null, <<>>, NoUrl, NoUrl, NoUrl,
                                   Message("Page content was empty after cleaning", "")), url),
                 FALSE)
  ELSE Outcome(WithSource(ExtractFromLLM(r, url), url), TRUE)

NotCalled == NoJson("none")

ExtractAfterFetch(r) ==
  /\ xpc = "fetched"
  /\ xpc' = "done"
  /\ LET out == ExtractOutcome(fetched, r, SourceUrl) IN
       /\ result' = out.result
       /\ events' = IF out.called THEN Append(events, LLMCall) ELSE events
       /\ llm_response' = IF out.called THEN r ELSE NotCalled
  /\ UNCHANGED <<max_retries, retry_delay, attempt, last_error, fetched>>
  /\ UNCHANGED <<storeVars, parseVars, dirVars, mergeVars, batchVars, pubVars, retryVars, deptVars>>

ExtractIdle ==
  /\ max_retries = 0
  /\ retry_delay = 0
  /\ xpc = "idle"
  /\ attempt = 0
  /\ last_error = Null
  /\ events = <<>>
  /\ fetched = NoFetch
  /\ llm_response = NotCalled
  /\ result = NoResult

\* ------------------------------------------------------------------------
\* faculty_scraper.py: parse_faculty_generic and its helpers
\* ------------------------------------------------------------------------
\* A path is its segments plus whether it ends in "/":
\* "/people/jsmith" is <<"people", "jsmith">> without a trailing slash.
Path(segs, slash) == [segs |-> segs, slash |-> slash]

\* `"/people/" in href`
HasPeople(href) ==
  /\ href.scheme \notin {Null, ""}
  /\ \E i \in 1..Len(href.path.segs) :
        href.path.segs[i] = "people" /\ (i < Len(href.path.segs) \/ href.path.slash)

\* `parts = href.rstrip("/").split("/")`, `len(parts) < 2 or parts[-1] == "people"`
IsIndexPage(href) ==
  \/ Len(href.path.segs) = 0
  \/ href.path.segs[Len(href.path.segs)] = "people"

\* An href attribute: an absolute URL, a relative one ("rel"), "" or missing.
Href(scheme, host, segs, slash) == Url(scheme, host, Path(segs, slash))
NoHref == Url(Null, Null, Path(<<>>, FALSE))
EmptyHref == Url("", "", Path(<<>>, FALSE))

\* `if href.startswith("http"): profile_url = href else: base_url + href`
AbsoluteUrl(href, base) ==
  IF href.scheme \in {"http", "https"} THEN href
  ELSE Url(base.scheme, base.host, href.path)

\* The visible texts of the model's anchors and cards: length, number of
\* whitespace-separated words, number of alphabetic or space characters.
TextInfo(text) ==
  CASE text = "Jane A. Smith" -> [len |-> 13, words |-> 3, alpha |-> 12]
    [] text = "Jane Smith" -> [len |-> 10, words |-> 2, alpha |-> 10]
    [] text = "Ada Lovelace" -> [len |-> 12, words |-> 2, alpha |-> 12]
    [] text = "Smith" -> [len |-> 5, words |-> 1, alpha |-> 5]
    [] text = "View Profile" -> [len |-> 12, words |-> 2, alpha |-> 12]
    [] text = "People" -> [len |-> 6, words |-> 1, alpha |-> 6]
    [] text = "Room 4130 #2" -> [len |-> 12, words |-> 3, alpha |-> 6]
    [] text = "" -> [len |-> 0, words |-> 0, alpha |-> 0]

\* text.lower() in skip_words
SkipWord(text) == text \in {"View Profile", "People"}

is_likely_name(text) ==
  LET t == TextInfo(text) IN
  /\ ~ (t.len = 0 \/ t.len < 3 \/ t.len > 50)
  /\ ~ SkipWord(text)
  /\ ~ (t.words < 2)
  /\ ~ (t.alpha * 10 < t.len * 8)

\* div.email of a card: missing, holding a mailto link, or holding text.
EmailDiv(form, text) == [form |-> form, text |-> text]
NoEmailDiv == EmailDiv("absent", "")

\* The [at] / [dot] replacements of extract_email on the model's texts.
Deobfuscate(text) ==
  CASE text = "jsmith [at] cornell [dot] edu" -> "jsmith@cornell.edu"
    [] text = "smith[at]cornell.edu" -> "smith@cornell.edu"
    [] OTHER -> text

HasAt(text) == text \in {"jsmith@cornell.edu", "smith@cornell.edu", "js@cornell.edu"}

extract_email(row) ==
  IF row.email_div.form = "absent" THEN Null
  ELSE IF row.email_div.form = "mailto" THEN row.email_div.text
  ELSE IF HasAt(Deobfuscate(row.email_div.text)) THEN Deobfuscate(row.email_div.text)
  ELSE Null

\* div.department of a card (Null: no such div).
extract_department(row) == row.department

extract_department_from_url(url) ==
  IF url = NoHref THEN Null
  ELSE IF url.host = "www.duffield.cornell.edu" THEN "Engineering (Duffield)"
  ELSE IF url.host = "www.cs.cornell.edu" THEN "Computer Science"
  ELSE IF url.host = "www.engineering.cornell.edu" THEN "Engineering"
  ELSE IF url.host = "www.ece.cornell.edu" THEN "Electrical and Computer Engineering"
  ELSE IF url.host = "www.mae.cornell.edu" THEN "Mechanical and Aerospace Engineering"
  ELSE Null

\* The elements of a directory page the parser looks at, in document order: a
\* div.views-row card (with or without div.name, a name link, div.email,
\* div.department) or an anchor outside any card (near_mail: the address of a
\* mailto link under its nearest div/article/section/li ancestor, or Null).
Row(name_div, has_link, text, href, email_div, department) ==
  [kind |-> "row", name_div |-> name_div, has_link |-> has_link, text |-> text,
   href |-> href, email_div |-> email_div, department |-> department, near_mail |-> Null]

Link(text, href, near_mail) ==
  [kind |-> "link", name_div |-> FALSE, has_link |-> TRUE, text |-> text,
   href |-> href, email_div |-> NoEmailDiv, department |-> Null, near_mail |-> near_mail]

Candidate(name, department, email, profile_url) ==
  [name |-> name, department |-> department, email |-> email,
   profile_url |-> profile_url, website |-> Null]

\* faculty_list together with seen_urls.
Acc(list, seen) == [list |-> list, seen_urls |-> seen]

\* Strategy 1, one iteration of `for row in soup.select("div.views-row")`.
StructuredStep(acc, row, base) ==
  IF row.kind # "row" \/ ~ row.name_div THEN acc
  ELSE IF row.text = "" THEN acc
  ELSE LET profile_url ==
             IF row.has_link /\ row.href.scheme \notin {Null, ""}
               THEN AbsoluteUrl(row.href, base) ELSE NoHref
           department ==
             IF extract_department(row) \in {Null, ""}
               THEN extract_department_from_url(profile_url)
               ELSE extract_department(row)
       IN IF profile_url # NoHref /\ profile_url \notin acc.seen_urls
            THEN Acc(Append(acc.list,
                            Candidate(row.text, department, extract_email(row), profile_url)),
                     acc.seen_urls \cup {profile_url})
            ELSE acc

\* soup.find_all("a", href=True): the anchors of the page in document order,
\* the name links of the cards among them (their nearest div is div.name,
\* which holds no mailto link).
RECURSIVE Anchors(_)
Anchors(doc) ==
  IF doc = <<>> THEN <<>>
  ELSE LET e == Head(doc) IN
       (IF e.has_link /\ e.href # NoHref
          THEN << Link(e.text, e.href, e.near_mail) >> ELSE <<>>)
       \o Anchors(Tail(doc))

\* Strategy 2, one iteration of `for link in soup.find_all("a", href=True)`.
HeuristicStep(acc, link, base) ==
  IF ~ HasPeople(link.href) THEN acc
  ELSE IF IsIndexPage(link.href) THEN acc
  ELSE IF ~ is_likely_name(link.text) THEN acc
  ELSE LET profile_url == AbsoluteUrl(link.href, base) IN
       IF profile_url \in acc.seen_urls THEN acc
       ELSE Acc(Append(acc.list,
                       Candidate(link.text, extract_department_from_url(profile_url),
                                 link.near_mail, profile_url)),
                acc.seen_urls \cup {profile_url})

RECURSIVE StructuredStrategy(_, _, _)
StructuredStrategy(rows, base, acc) ==
  IF rows = <<>> THEN acc
  ELSE StructuredStrategy(Tail(rows), base, StructuredStep(acc, Head(rows), base))

RECURSIVE HeuristicStrategy(_, _, _)
HeuristicStrategy(links, base, acc) ==
  IF links = <<>> THEN acc
  ELSE HeuristicStrategy(Tail(links), base, HeuristicStep(acc, Head(links), base))

parse_heuristic_first(doc, base) ==
  StructuredStrategy(doc, base,
                     HeuristicStrategy(Anchors(doc), base, Acc(<<>>, {}))).list

parse_faculty_generic(doc, base) ==
  HeuristicStrategy(Anchors(doc), base,
                    StructuredStrategy(doc, base, Acc(<<>>, {}))).list

\* The site of the directory being parsed (extract_base_url of its URL).
CsBase == Url("https", "www.cs.cornell.edu", Path(<<>>, FALSE))

JSmith == Path(<<"people", "jsmith">>, FALSE)

PageItems ==
  { Row(TRUE, TRUE, "Jane A. Smith", Href("rel", "", JSmith.segs, FALSE),
        EmailDiv("text", "jsmith [at] cornell [dot] edu"), "Computing and Information Science"),
    Row(TRUE, TRUE, "Jane Smith", Href("https", "www.cs.cornell.edu", JSmith.segs, FALSE),
        NoEmailDiv, Null),
    Row(TRUE, TRUE, "Smith", Href("rel", "", <<"people", "smith">>, FALSE),
        EmailDiv("mailto", "smith@cornell.edu"), ""),
    Row(TRUE, FALSE, "Ada Lovelace", NoHref, EmailDiv("text", "no email listed"), Null),
    Row(FALSE, FALSE, "", NoHref, NoEmailDiv, Null),
    Row(TRUE, TRUE, "", Href("rel", "", <<"people", "blank">>, FALSE), NoEmailDiv, Null),
    Link("Jane Smith", Href("rel", "", JSmith.segs, FALSE), "js@cornell.edu"),
    Link("Ada Lovelace", Href("https", "www.ece.cornell.edu", <<"people", "ada">>, TRUE), Null),
    Link("People", Href("rel", "", <<"people">>, TRUE), Null),
    Link("View Profile", Href("rel", "", <<"people", "ada">>, FALSE), Null),
    Link("Room 4130 #2", Href("rel", "", <<"about", "rooms">>, FALSE), Null) }

Pages == UNION { [1..n -> PageItems] : n \in 0..MaxItems }

\* The call parse_faculty_generic(page_html, base_url).
ParsePage ==
  /\ ppc = "call"
  /\ faculty_list' = parse_faculty_generic(page_html, base_url)
  /\ ppc' = "parsed"
  /\ UNCHANGED <<page_html, base_url>>
  /\ UNCHANGED <<storeVars, extractVars, dirVars, mergeVars, batchVars, pubVars, retryVars, deptVars>>

ParseIdle ==
  /\ page_html = <<>>
  /\ base_url = CsBase
  /\ ppc = "idle"
  /\ faculty_list = <<>>

\* ------------------------------------------------------------------------
\* faculty_scraper.py: extract_faculty_html, extract_all_pages
\* ------------------------------------------------------------------------
\* `while page_num <= 20`
PageCeiling == 20

\* response.text: the empty string (blank), or a document with its elements.
Text(blank, items) == [blank |-> blank, items |-> items]
EmptyText == Text(TRUE, <<>>)

Response(raised, status, text) == [raised |-> raised, status |-> status, text |-> text]

\* The listings of the model's directory, page by page.
Chunk(i) ==
  IF i = 0
    THEN << Row(TRUE, TRUE, "Jane A. Smith", Href("rel", "", JSmith.segs, FALSE),
                EmailDiv("text", "jsmith [at] cornell [dot] edu"),
                "Computing and Information Science"),
            Link("Ada Lovelace", Href("https", "www.ece.cornell.edu", <<"people", "ada">>, TRUE),
                 Null) >>
  ELSE IF i = 1
    THEN << Link("Jane Smith", Href("rel", "", JSmith.segs, FALSE), "js@cornell.edu"),
            Link("Room 4130 #2", Href("rel", "", <<"about", "rooms">>, FALSE), Null) >>
  ELSE << Row(TRUE, TRUE, "Smith", Href("rel", "", <<"people", "smith">>, FALSE),
              EmailDiv("mailto", "smith@cornell.edu"), "") >>

\* An error page or an empty listing: the site's template without a listing,
\* with or without a navigation link to the people index.
PlainPage == << Link("Room 4130 #2", Href("rel", "", <<"about", "rooms">>, FALSE), Null) >>
NavPage == << Link("People", Href("rel", "", <<"people">>, TRUE), Null) >>

\* How a site numbers its pages: ?page=N is the page after the base page's
\* ("zero"), ?page=1 repeats the base page ("one"), or the parameter is
\* ignored and every request shows the first listing ("ignored").
PageModes == {"zero", "one", "ignored"}
\* What a site answers past its last listing.
BeyondKinds == {"empty", "no listing", "404 plain", "404 nav", "exception"}
\* What it answers to the base request.
BaseKinds == {"ok", "exception", "404 plain"}
\* How its profile pages answer.
ProfileKinds == {"websites", "down", "mixed", "flaky"}

Sites ==
  [chunks : 1..MaxChunks, mode : PageModes, beyond : BeyondKinds, base : BaseKinds,
   profiles : ProfileKinds]

Unlisted(kind) ==
  CASE kind = "empty" -> Response(FALSE, 200, EmptyText)
    [] kind = "no listing" -> Response(FALSE, 200, Text(FALSE, PlainPage))
    [] kind = "404 plain" -> Response(FALSE, 404, Text(FALSE, PlainPage))
    [] kind = "404 nav" -> Response(FALSE, 404, Text(FALSE, NavPage))
    [] kind = "exception" -> Response(TRUE, 0, EmptyText)

\* requests.get on the base URL (n = 0) or on base?page=n.
DirectoryGet(s, n) ==
  LET i == CASE s.mode = "zero" -> n
             [] s.mode = "one" -> IF n = 0 THEN 0 ELSE n - 1
             [] s.mode = "ignored" -> 0
  IN IF n = 0 /\ s.base # "ok" THEN Unlisted(s.base)
     ELSE IF i < s.chunks THEN Response(FALSE, 200, Text(FALSE, Chunk(i)))
     ELSE Unlisted(s.beyond)

\* extract_faculty_html: response.text whatever the status, "" on a
\* RequestException.
extract_faculty_html(resp) ==
  IF resp.raised THEN EmptyText ELSE resp.text

\* soup.select("div.views-row")
has_faculty_rows(text) ==
  \E i \in 1..Len(text.items) : text.items[i].kind = "row"

\* soup.find_all("a", href=lambda h: h and "/people/" in h)
has_profile_links(text) ==
  \E i \in 1..Len(Anchors(text.items)) : HasPeople(Anchors(text.items)[i].href)

HasListingRowsOnly(text) == has_faculty_rows(text)

HasListing(text) == has_faculty_rows(text) \/ has_profile_links(text)

\* extract_all_pages up to the while loop.
FetchBase ==
  /\ gpc = "base"
  /\ requests' = Append(requests, 0)
  /\ LET text == extract_faculty_html(DirectoryGet(server, 0)) IN
     IF text.blank
       THEN /\ gpc' = "fetched"
            /\ UNCHANGED <<pages, page_num>>
       ELSE /\ pages' = Append(pages, text)
            /\ page_num' = 1
            /\ gpc' = "paging"
  /\ UNCHANGED <<server, all_faculty, enrich_i, profile_requests>>
  /\ UNCHANGED <<storeVars, extractVars, parseVars, mergeVars, batchVars, pubVars, retryVars, deptVars>>

\* One iteration of `while page_num <= 20`.
FetchPage ==
  /\ gpc = "paging"
  /\ page_num <= PageCeiling
  /\ requests' = Append(requests, page_num)
  /\ LET text == extract_faculty_html(DirectoryGet(server, page_num)) IN
     IF text.blank \/ ~ HasListing(text)
       THEN /\ gpc' = "fetched"
            /\ UNCHANGED <<pages, page_num>>
       ELSE /\ pages' = Append(pages, text)
            /\ page_num' = page_num + 1
            /\ gpc' = "paging"
  /\ UNCHANGED <<server, all_faculty, enrich_i, profile_requests>>
  /\ UNCHANGED <<storeVars, extractVars, parseVars, mergeVars, batchVars, pubVars, retryVars, deptVars>>

\* The while condition fails: `return pages`.
PagingExit ==
  /\ gpc = "paging"
  /\ page_num > PageCeiling
  /\ gpc' = "fetched"
  /\ UNCHANGED <<server, page_num, pages, requests, all_faculty, enrich_i, profile_requests>>
  /\ UNCHANGED <<storeVars, extractVars, parseVars, mergeVars, batchVars, pubVars, retryVars, deptVars>>

\* ------------------------------------------------------------------------
\* faculty_scraper.py: parse_all_faculty_pages, parse_profile_page
\* ------------------------------------------------------------------------
\* `for html in pages: all_faculty.extend(parse_faculty_generic(html, ...))`
RECURSIVE ParseAll(_, _)
ParseAll(ps, base) ==
  IF ps = <<>> THEN <<>>
  ELSE parse_faculty_generic(Head(ps).items, base) \o ParseAll(Tail(ps), base)

\* A profile page: its contact-detail items (format 1) and right-rail blocks
\* (format 2), each with its label and the href of its first link (Null: no
\* a[href] in it).
Detail(label, href) == [label |-> label, href |-> href]
Profile(raised, status, items, blocks) ==
  [raised |-> raised, status |-> status, items |-> items, blocks |-> blocks]

WebsiteLabels == {"Website", "Research Website", "Personal Website", "Additional Links"}

\* The first labelled item with a link: its href, Null if there is none.
RECURSIVE FirstWebsite(_)
FirstWebsite(items) ==
  IF items = <<>> THEN Null
  ELSE IF Head(items).label \in WebsiteLabels /\ Head(items).href # Null
    THEN Head(items).href
  ELSE FirstWebsite(Tail(items))

\* parse_profile_page(profile_url)["website"], given the answer to its GET.
parse_profile_page_any_status(resp) ==
  IF resp.raised THEN Null
  ELSE IF Truthy(FirstWebsite(resp.items)) THEN FirstWebsite(resp.items)
  ELSE IF FirstWebsite(resp.blocks) # Null THEN FirstWebsite(resp.blocks)
  ELSE FirstWebsite(resp.items)

parse_profile_page(resp) ==
  IF resp.raised THEN Null
  ELSE IF resp.status # 200 THEN Null
  ELSE IF Truthy(FirstWebsite(resp.items)) THEN FirstWebsite(resp.items)
  ELSE IF FirstWebsite(resp.blocks) # Null THEN FirstWebsite(resp.blocks)
  ELSE FirstWebsite(resp.items)

\* requests.get(profile_url, timeout=10)
ProfileGet(s, url) ==
  LET who == url.path.segs[Len(url.path.segs)] IN
  CASE s.profiles = "down" -> Profile(TRUE, 0, <<>>, <<>>)
    [] s.profiles = "websites" ->
         IF who = "jsmith"
           THEN Profile(FALSE, 200, << Detail("Email", "mailto:jsmith"),
                                       Detail("Website", "https://jsmith.example") >>, <<>>)
         ELSE IF who = "ada"
           THEN Profile(FALSE, 200, <<>>, << Detail("Additional Links", "https://ada.example") >>)
         ELSE Profile(FALSE, 200, << Detail("Phone", Null) >>, << Detail("Office", Null) >>)
    [] s.profiles = "mixed" ->
         IF who = "jsmith"
           THEN Profile(FALSE, 500, << Detail("Website", "https://error.example") >>, <<>>)
         ELSE IF who = "ada"
           THEN Profile(FALSE, 200, << Detail("Website", "") >>, << Detail("Website", Null) >>)
         ELSE Profile(FALSE, 200, << Detail("Website", Null) >>,
                      << Detail("Research Website", "https://lab.example") >>)
    [] s.profiles = "flaky" ->
         IF who = "jsmith" THEN Profile(TRUE, 0, <<>>, <<>>)
         ELSE Profile(FALSE, 200, << Detail("Office", Null) >>,
                      << Detail("Additional Links", "https://ada.example") >>)

\* parse_all_faculty_pages from the return of extract_all_pages to the start
\* of the profile loop.
ParsePages ==
  /\ gpc = "fetched"
  /\ all_faculty' = ParseAll(pages, CsBase)
  /\ enrich_i' = 1
  /\ gpc' = "enrich"
  /\ UNCHANGED <<server, page_num, pages, requests, profile_requests>>
  /\ UNCHANGED <<storeVars, extractVars, parseVars, mergeVars, batchVars, pubVars, retryVars, deptVars>>

\* One iteration of `for i, faculty in enumerate(all_faculty)`.
EnrichProfile ==
  /\ gpc = "enrich"
  /\ enrich_i <= Len(all_faculty)
  /\ LET f == all_faculty[enrich_i] IN
     IF f.profile_url # NoHref
       THEN /\ profile_requests' = Append(profile_requests, f.profile_url)
            /\ all_faculty' =
                 [all_faculty EXCEPT ![enrich_i].website =
                    parse_profile_page(ProfileGet(server, f.profile_url))]
       ELSE UNCHANGED <<profile_requests, all_faculty>>
  /\ enrich_i' = enrich_i + 1
  /\ UNCHANGED <<server, gpc, page_num, pages, requests>>
  /\ UNCHANGED <<storeVars, extractVars, parseVars, mergeVars, batchVars, pubVars, retryVars, deptVars>>

\* The profile loop is over: `return all_faculty`.
EnrichExit ==
  /\ gpc = "enrich"
  /\ enrich_i > Len(all_faculty)
  /\ gpc' = "done"
  /\ UNCHANGED <<server, page_num, pages, requests, all_faculty, enrich_i, profile_requests>>
  /\ UNCHANGED <<storeVars, extractVars, parseVars, mergeVars, batchVars, pubVars, retryVars, deptVars>>

DirIdle ==
  /\ server = [chunks |-> 1, mode |-> "zero", beyond |-> "empty", base |-> "ok",
               profiles |-> "down"]
  /\ gpc = "idle"
  /\ page_num = 0
  /\ pages = <<>>
  /\ requests = <<>>
  /\ all_faculty = <<>>
  /\ enrich_i = 0
  /\ profile_requests = <<>>

\* ------------------------------------------------------------------------
\* faculty_scraper.py: the merge loop of __main__
\* ------------------------------------------------------------------------
\* Candidates as parse_all_faculty_pages returns them: the name is never
\* empty; website and email are None, "" (an empty href, a bare "mailto:")
\* or a value.
Scraped(name, website, email, department) ==
  [name |-> name, department |-> department, email |-> email,
   profile_url |-> Href("https", "www.cs.cornell.edu", <<"people", name>>, FALSE),
   website |-> website]

ScrapedCandidates ==
  { Scraped("A", Null, Null, "d1"),
    Scraped("A", "", "e1", "d1"),
    Scraped("A", "w1", Null, "d2"),
    Scraped("A", "w2", "e2", "d2"),
    Scraped("A", Null, "", "d1"),
    Scraped("B", "w1", "", "d1"),
    Scraped("B", Null, "e1", "d2"),
    Scraped("B", "", Null, "d1") }

\* `if not existing[k] and f[k]: existing[k] = f[k]`
FillOverwrite(existing, new) == IF Truthy(new) THEN new ELSE existing

Fill(existing, new) ==
  IF ~ Truthy(existing) /\ Truthy(new) THEN new ELSE existing

\* The inner `for existing in all_faculty` loop: the first record of that name.
MergeInto(list, f) ==
  LET i == CHOOSE i \in 1..Len(list) :
             /\ list[i].name = f.name
             /\ \A j \in 1..(i - 1) : list[j].name # f.name
  IN [list EXCEPT ![i].website = Fill(list[i].website, f.website),
                  ![i].email = Fill(list[i].email, f.email)]

\* One iteration of `for f in faculty`.
MergeFaculty(f) ==
  /\ Len(occurrences) < MaxOccurrences
  /\ occurrences' = Append(occurrences, f)
  /\ IF f.name \in seen_names
       THEN /\ merged' = MergeInto(merged, f)
            /\ UNCHANGED seen_names
       ELSE /\ seen_names' = seen_names \cup {f.name}
            /\ merged' = Append(merged, f)
  /\ UNCHANGED <<storeVars, extractVars, parseVars, dirVars, batchVars, pubVars, retryVars, deptVars>>

MergeIdle ==
  /\ merged = <<>>
  /\ seen_names = {}
  /\ occurrences = <<>>

\* ------------------------------------------------------------------------
\* lab_pages.py: LabPageExtractor.extract_batch
\* ------------------------------------------------------------------------
\* URLs in one batch
MaxUrls == 2

\* The URLs a batch is drawn from.
OtherUrl == Url("http", "people.ece.cornell.edu", "/~ada/index.html")
BatchUrls == {SourceUrl, OtherUrl}

\* Values of delay_between_requests, in tenths of a second (default 0.5).
BatchDelays == {5, 20}

RECURSIVE SeqsUpTo(_, _)
SeqsUpTo(S, n) ==
  IF n = 0 THEN {<<>>}
  ELSE SeqsUpTo(S, n - 1) \cup { Append(q, x) : q \in SeqsUpTo(S, n - 1), x \in S }

\* Every pair fetch can return for a given max_retries: with no iteration of
\* its loop (None, None); otherwise the body of a successful GET, or None
\* with the last_error an except clause left.
FetchReturns(m) ==
  IF m <= 0 THEN {FetchedError(Null)}
  ELSE { FetchedHtml(b) : b \in Bodies }
       \cup { FetchedError(ErrorText(o)) : o \in {g \in GetOutcomes : g.kind # "ok"} }

BatchEvent(kind, k) == [kind |-> kind, k |-> k]

\* `if i < len(urls) - 1` (i counts from 0)
SleepsAfter(i, n) == i < n - 1

\* One iteration of `for i, url in enumerate(urls)`: the extract call on
\* urls[i], given what its fetch returned and what the LLM did.  An exception
\* raised by extract leaves extract_batch.
BatchItem(f, r) ==
  /\ bpc = "loop"
  /\ batch_i < Len(urls)
  /\ f \in FetchReturns(max_retries)
  /\ LET url == urls[batch_i + 1]
         out == ExtractOutcome(f, r, url)
         called == BatchEvent("extract", batch_i + 1)
     IN IF out.result.raised # Null
          THEN /\ bpc' = "raised"
               /\ batch_log' = Append(batch_log, called)
               /\ UNCHANGED <<results, batch_i>>
          ELSE /\ results' = Append(results, out.result)
               /\ batch_log' =
                    IF SleepsAfter(batch_i, Len(urls))
                      THEN batch_log \o << called, BatchEvent("sleep", delay_between_requests) >>
                      ELSE Append(batch_log, called)
               /\ batch_i' = batch_i + 1
               /\ UNCHANGED bpc
  /\ UNCHANGED <<urls, delay_between_requests>>
  /\ UNCHANGED <<storeVars, extractVars, parseVars, dirVars, mergeVars, pubVars, retryVars, deptVars>>

\* The loop is over: `return results`.
BatchReturn ==
  /\ bpc = "loop"
  /\ batch_i >= Len(urls)
  /\ bpc' = "done"
  /\ UNCHANGED <<urls, delay_between_requests, batch_i, results, batch_log>>
  /\ UNCHANGED <<storeVars, extractVars, parseVars, dirVars, mergeVars, pubVars, retryVars, deptVars>>

BatchIdle ==
  /\ urls = <<>>
  /\ delay_between_requests = 0
  /\ bpc = "idle"
  /\ batch_i = 0
  /\ results = <<>>
  /\ batch_log = <<>>

\* ------------------------------------------------------------------------
\* publications_db.py: store_publications
\* ------------------------------------------------------------------------
\* Publication objects passed to store_publications over a run
MaxPubWrites == 3
\* length of the list of one store_publications call
MaxPubBatch == 2

\* models.py: the Publication dataclass.  fetched_at is a datetime, modelled
\* as a tick count.
Publication(paper_id, title, abstract, citation_count, year, venue, url, professor_name, author_id, fetched_at) ==
  [paper_id |-> paper_id, title |-> title, abstract |-> abstract,
   citation_count |-> citation_count, year |-> year, venue |-> venue, url |-> url,
   professor_name |-> professor_name, author_id |-> author_id, fetched_at |-> fetched_at]

\* datetime.isoformat(): the text stored in the TIMESTAMP column.
IsoFormat(t) == [iso |-> t]

\* A year or venue that is None is stored as NULL; year is an integer column,
\* so None is modelled as year 0.
NoYear == 0

\* The publications the model stores: one paper fetched three times for the
\* same professor (changed fields, fields gone null, another author id), a
\* second paper, and the first paper under another professor.
Publications ==
  { Publication("p1", "Engines", "abstract", 10, 1843, "Memoirs", "https://s2.org/p1",
                "Ada Lovelace", "a1", 1),
    Publication("p1", "Engines (revised)", Null, 12, NoYear, Null, Null,
                "Ada Lovelace", "a1", 2),
    Publication("p1", "Engines", "abstract", 10, 1843, "Memoirs", "https://s2.org/p1",
                "Ada Lovelace", "a2", 3),
    Publication("p2", "Notes", Null, 0, 1842, "", "https://s2.org/p2",
                "Ada Lovelace", "a1", 1),
    Publication("p1", "Engines", "abstract", 10, 1843, "Memoirs", "https://s2.org/p1",
                "Jane Smith", "a3", 2) }

PublicationLists == SeqsUpTo(Publications, MaxPubBatch)

\* VALUES (?, ...): the row an INSERT proposes.
PubValuesRow(pub) == [pub EXCEPT !.fetched_at = IsoFormat(pub.fetched_at)]

\* UNIQUE(paper_id, professor_name)
SameKey(row, excluded) ==
  row.paper_id = excluded.paper_id /\ row.professor_name = excluded.professor_name

\* ON CONFLICT(paper_id, professor_name) DO UPDATE SET ...: the seven listed
\* columns take the excluded values; author_id is not in the list.
PubDoUpdate(row, excluded) ==
  [row EXCEPT !.title = excluded.title,
              !.abstract = excluded.abstract,
              !.citation_count = excluded.citation_count,
              !.year = excluded.year,
              !.venue = excluded.venue,
              !.url = excluded.url,
              !.fetched_at = excluded.fetched_at]

\* One INSERT ... ON CONFLICT DO UPDATE.
PubUpsert(table, excluded) ==
  IF \E i \in 1..Len(table) : SameKey(table[i], excluded)
    THEN [i \in 1..Len(table) |->
            IF SameKey(table[i], excluded) THEN PubDoUpdate(table[i], excluded)
            ELSE table[i]]
    ELSE Append(table, excluded)

\* `for pub in publications: cursor.execute(...)`
RECURSIVE StorePublicationsRows(_, _)
StorePublicationsRows(table, list) ==
  IF list = <<>> THEN table
  ELSE StorePublicationsRows(PubUpsert(table, PubValuesRow(Head(list))), Tail(list))

store_publications(list) ==
  /\ Len(pub_written) + Len(list) <= MaxPubWrites
  /\ publications' = StorePublicationsRows(publications, list)
  /\ pub_written' = pub_written \o list
  /\ pub_stored' = Len(list)
  /\ UNCHANGED <<storeVars, extractVars, parseVars, dirVars, mergeVars, batchVars, retryVars, deptVars>>

PubIdle ==
  /\ publications = <<>>
  /\ pub_written = <<>>
  /\ pub_stored = Null

\* ------------------------------------------------------------------------
\* publications.py: fetch_top_publications, scrape_and_store_publications
\* ------------------------------------------------------------------------
\* fetch_top_publications: top_n = 10
TopN == 10

\* An error message: its fixed text and the value formatted into it.
Err(text, detail) == [text |-> text, detail |-> detail]
NoErr == Err(Null, Null)

\* A paper of the author-papers response.  citationCount null or missing is
\* NoCount; a missing paperId or title is Absent.
NoCount == -1
Paper(paperId, title, citationCount) ==
  [paperId |-> paperId, title |-> title, citationCount |-> citationCount]

\* What the Semantic Scholar API does during one fetch_top_publications call.
Api(kind, status, msg, author_id, papers) ==
  [kind |-> kind, status |-> status, msg |-> msg, author_id |-> author_id, papers |-> papers]

ApiFailures ==
  { Api("timeout", 0, "", "", <<>>),
    Api("http", 429, "", "", <<>>),
    Api("http", 500, "", "", <<>>),
    Api("network", 0, "Connection refused", "", <<>>),
    Api("network", 0, "Proxy: Rate Limit reached", "", <<>>),
    Api("no author", 200, "", "", <<>>),
    Api("no papers", 200, "", "a1", <<>>),
    Api("unexpected", 200, "KeyError: 'authorId'", "", <<>>) }

ApiPapers ==
  { Api("papers", 200, "", "a1", << Paper("p2", "Notes", NoCount), Paper("p1", "Engines", 10) >>),
    Api("papers", 200, "", "a2", << Paper(Absent, Absent, 0) >>) }

ApiBehaviours == ApiFailures \cup ApiPapers

StatusDetail(status) ==
  CASE status = 429 -> "429" [] status = 500 -> "500" [] OTHER -> "status"

\* The error fetch_top_publications returns for each failure.
FetchError(api, professor) ==
  CASE api.kind = "timeout" -> Err("Request timed out while fetching publications", "")
    [] api.kind = "http" /\ api.status = 429 ->
         Err("Rate limit exceeded. Try again later or use an API key.", "")
    [] api.kind = "http" /\ api.status # 429 -> Err("HTTP error: ", StatusDetail(api.status))
    [] api.kind = "network" -> Err("Network error: ", api.msg)
    [] api.kind = "no author" -> Err("Author not found on Semantic Scholar: ", professor)
    [] api.kind = "no papers" -> Err("No papers found for author: ", professor)
    [] api.kind = "unexpected" -> Err("Unexpected error: ", api.msg)
    [] OTHER -> NoErr

\* `p.get("citationCount") or 0`
CitationsOr0(p) == IF p.citationCount = NoCount THEN 0 ELSE p.citationCount

\* sorted(papers, key=..., reverse=True): a stable sort, most cited first.
RECURSIVE InsertByCitations(_, _)
InsertByCitations(p, sorted) ==
  IF sorted = <<>> THEN << p >>
  ELSE IF CitationsOr0(Head(sorted)) >= CitationsOr0(p)
    THEN << Head(sorted) >> \o InsertByCitations(p, Tail(sorted))
  ELSE << p >> \o sorted

RECURSIVE SortByCitations(_)
SortByCitations(papers) ==
  IF papers = <<>> THEN <<>>
  ELSE InsertByCitations(papers[Len(papers)], SortByCitations(SubSeq(papers, 1, Len(papers) - 1)))

Take(q, n) == SubSeq(q, 1, IF Len(q) < n THEN Len(q) ELSE n)

\* dict.get(key, default)
GetOr(v, default) == IF v = Absent THEN default ELSE v

\* The Publication built from one paper; the response carries no abstract,
\* year, venue or url in the model.
ToPublication(p, professor, author_id, now) ==
  Publication(GetOr(p.paperId, ""), GetOr(p.title, "Untitled"), Null, CitationsOr0(p),
              NoYear, Null, Null, professor, author_id, now)

\* fetch_top_publications(professor): the pair (publications, error).
fetch_top_publications(api, professor, now) ==
  IF api.kind # "papers" \/ api.papers = <<>>
    THEN [publications |-> <<>>,
          error |-> IF api.kind = "papers" THEN FetchError(Api("no papers", 200, "", "", <<>>), professor)
                    ELSE FetchError(api, professor)]
  ELSE LET top == Take(SortByCitations(api.papers), TopN) IN
       [publications |-> [i \in 1..Len(top) |-> ToPublication(top[i], professor, api.author_id, now)],
        error |-> NoErr]

\* scrape_and_store_publications(professor): the pair (count, error) it
\* returns, the list it stored and the table afterwards.
scrape_and_store_publications(api, professor, table, now) ==
  LET got == fetch_top_publications(api, professor, now) IN
  IF got.error # NoErr
    THEN [count |-> 0, error |-> got.error, stored |-> <<>>, called |-> FALSE, table |-> table]
  ELSE IF got.publications = <<>>
    THEN [count |-> 0, error |-> NoErr, stored |-> <<>>, called |-> FALSE, table |-> table]
  ELSE [count |-> Len(got.publications), error |-> NoErr, stored |-> got.publications,
        called |-> TRUE, table |-> StorePublicationsRows(table, got.publications)]

\* ------------------------------------------------------------------------
\* scrape_all.py: fetch_with_retry
\* ------------------------------------------------------------------------
\* largest max_retries argument of fetch_with_retry (the default is 3)
MaxFwRetries == 3

\* Values of initial_backoff, in seconds (the default is 60.0).
InitialBackoffs == {60, 1}

\* The texts of the model that contain "rate limit" once lower-cased.
HasRateLimit(text) ==
  text \in {"Rate limit exceeded. Try again later or use an API key.",
            "Proxy: Rate Limit reached"}

\* `error and "rate limit" in error.lower()`
RateLimited(error) ==
  error # NoErr /\ (HasRateLimit(error.text) \/ HasRateLimit(error.detail))

\* `if attempt < max_retries`
RetriesLeftButOne(a, m) == a < m - 1

RetriesLeft(a, m) == a < m

\* `backoff *= 2`
NextBackoffLinear(b, initial) == b + initial

NextBackoff(b, initial) == b * 2

Returned2(count, error) == [count |-> count, error |-> error]
NoReturn == Returned2(-1, NoErr)

FwEvent(kind, k, ret) == [kind |-> kind, k |-> k, ret |-> ret]

\* One iteration of `for attempt in range(max_retries + 1)`.  The last
\* iteration (attempt = max_retries) always returns, so the loop never runs
\* out and the return after it is not reached.
FwAttempt(api) ==
  /\ fpc = "loop"
  /\ fw_attempt <= fw_max_retries
  /\ LET r == scrape_and_store_publications(api, fw_name, publications, pub_clock)
         ret == Returned2(r.count, r.error)
         fetch == FwEvent("fetch", fw_attempt, ret)
     IN /\ publications' = r.table
        /\ pub_written' = pub_written \o r.stored
        /\ pub_stored' = IF r.called THEN r.count ELSE pub_stored
        /\ pub_clock' = IF api.kind = "papers" /\ api.papers # <<>> THEN pub_clock + 1 ELSE pub_clock
        /\ IF RateLimited(r.error) /\ RetriesLeft(fw_attempt, fw_max_retries)
             THEN /\ fw_log' = fw_log \o << fetch, FwEvent("sleep", backoff, NoReturn) >>
                  /\ backoff' = NextBackoff(backoff, initial_backoff)
                  /\ fw_attempt' = fw_attempt + 1
                  /\ UNCHANGED <<fpc, fw_return>>
             ELSE /\ fw_log' = Append(fw_log, fetch)
                  /\ fw_return' = ret
                  /\ fpc' = "returned"
                  /\ UNCHANGED <<backoff, fw_attempt>>
  /\ UNCHANGED <<fw_name, fw_max_retries, initial_backoff>>
  /\ UNCHANGED <<storeVars, extractVars, parseVars, dirVars, mergeVars, batchVars, deptVars>>

RetryIdle ==
  /\ fw_name = Null
  /\ fw_max_retries = 0
  /\ initial_backoff = 0
  /\ backoff = 0
  /\ fw_attempt = 0
  /\ fpc = "idle"
  /\ fw_log = <<>>
  /\ fw_return = NoReturn
  /\ pub_clock = 0

\* ------------------------------------------------------------------------
\* scrape_all.py: scrape_department_publications
\* ------------------------------------------------------------------------
\* department_urls.py: the keys of DEPARTMENT_URLS.
DEPARTMENT_URLS == {"computer_science", "electrical_engineering", "mechanical_engineering"}

\* The keys the model calls scrape_department_publications with.
DepartmentKeys == {"computer_science", "physics", "Computer_Science"}

\* Values of delay_between_requests, in seconds (the default is 3.0).
DeptDelays == {3, 1}

\* fetch_with_retry(name): max_retries = 3, initial_backoff = 60.0
DefaultMaxRetries == 3
DefaultInitialBackoff == 60

\* The directories of the department run: listings that end with an empty
\* page, with working profile pages, reachable or not.
DeptSites ==
  { site \in Sites : /\ site.mode = "zero"
                     /\ site.beyond = "empty"
                     /\ site.base \in {"ok", "exception"}
                     /\ site.profiles = "websites" }

\* What the API does during the department run.
DeptApi == { api \in ApiBehaviours : api.kind \in {"timeout", "no author", "http", "papers"} }

\* `if department_key not in DEPARTMENT_URLS`
AnyDepartment(key) == TRUE

KnownDepartment(key) == key \in DEPARTMENT_URLS

\* `if i < len(faculty_list)` (i counts from 1)
SleepAfterEvery(i, n) == TRUE

SleepAfter(i, n) == i < n

DeptEvent(kind, i, professor, ret, seconds) ==
  [kind |-> kind, i |-> i, professor |-> professor, ret |-> ret, seconds |-> seconds]

\* The key check, and for a known key the call of parse_all_faculty_pages.
DeptStart ==
  /\ dpc = "start"
  /\ IF KnownDepartment(department_key)
       THEN dpc' = "directory" /\ gpc' = "base"
       ELSE dpc' = "unknown key" /\ UNCHANGED gpc
  /\ UNCHANGED <<department_key, dept_delay, cand_i, success_count, error_count, dept_log>>
  /\ UNCHANGED <<server, page_num, pages, requests, all_faculty, enrich_i, profile_requests>>
  /\ UNCHANGED <<storeVars, extractVars, parseVars, mergeVars, batchVars, pubVars, retryVars>>

\* parse_all_faculty_pages returned: `if not faculty_list: return`, else the
\* counters are reset and the loop starts.
DeptFaculty ==
  /\ dpc = "directory"
  /\ gpc = "done"
  /\ IF all_faculty = <<>>
       THEN dpc' = "no faculty" /\ UNCHANGED <<cand_i, success_count, error_count>>
       ELSE /\ dpc' = "loop"
            /\ cand_i' = 1
            /\ success_count' = 0
            /\ error_count' = 0
  /\ UNCHANGED <<department_key, dept_delay, dept_log>>
  /\ UNCHANGED <<storeVars, extractVars, parseVars, dirVars, mergeVars, batchVars, pubVars,
                 retryVars>>

\* Head of `for i, faculty in enumerate(faculty_list, 1)`: the call
\* fetch_with_retry(name) with its default arguments.
DeptCandidate ==
  /\ dpc = "loop"
  /\ cand_i <= Len(all_faculty)
  /\ dpc' = "fetching"
  /\ fw_name' = all_faculty[cand_i].name
  /\ fw_max_retries' = DefaultMaxRetries
  /\ initial_backoff' = DefaultInitialBackoff
  /\ backoff' = DefaultInitialBackoff
  /\ fw_attempt' = 0
  /\ fpc' = "loop"
  /\ fw_log' = <<>>
  /\ fw_return' = NoReturn
  /\ dept_log' = Append(dept_log, DeptEvent("fetch", cand_i, all_faculty[cand_i].name, NoReturn, 0))
  /\ UNCHANGED <<department_key, dept_delay, cand_i, success_count, error_count, pub_clock>>
  /\ UNCHANGED <<storeVars, extractVars, parseVars, dirVars, mergeVars, batchVars, pubVars>>

\* `if error:` on the error fetch_with_retry returned (None, or a message that
\* is never empty).
ErrorReturnedOnRateLimit(error) == RateLimited(error)

ErrorReturned(error) == error # NoErr

\* fetch_with_retry returned: the counters, and the sleep between candidates.
DeptAfterFetch ==
  /\ dpc = "fetching"
  /\ fpc = "returned"
  /\ IF ErrorReturned(fw_return.error)
       THEN error_count' = error_count + 1 /\ UNCHANGED success_count
     ELSE IF fw_return.count = 0
       THEN UNCHANGED <<success_count, error_count>>
     ELSE success_count' = success_count + 1 /\ UNCHANGED error_count
  /\ LET returned == DeptEvent("returned", cand_i, fw_name, fw_return, 0) IN
     dept_log' =
       IF SleepAfter(cand_i, Len(all_faculty))
         THEN dept_log \o << returned, DeptEvent("sleep", cand_i, fw_name, NoReturn, dept_delay) >>
         ELSE Append(dept_log, returned)
  /\ cand_i' = cand_i + 1
  /\ dpc' = "loop"
  /\ fpc' = "idle"
  /\ UNCHANGED <<department_key, dept_delay>>
  /\ UNCHANGED <<fw_name, fw_max_retries, initial_backoff, backoff, fw_attempt, fw_log,
                 fw_return, pub_clock>>
  /\ UNCHANGED <<storeVars, extractVars, parseVars, dirVars, mergeVars, batchVars, pubVars>>

\* The loop is over: the final summary is printed and the function returns.
DeptSummary ==
  /\ dpc = "loop"
  /\ cand_i > Len(all_faculty)
  /\ dpc' = "done"
  /\ UNCHANGED <<department_key, dept_delay, cand_i, success_count, error_count, dept_log>>
  /\ UNCHANGED <<storeVars, extractVars, parseVars, dirVars, mergeVars, batchVars, pubVars,
                 retryVars>>

DeptIdle ==
  /\ department_key = Null
  /\ dept_delay = 0
  /\ dpc = "idle"
  /\ cand_i = 0
  /\ success_count = 0
  /\ error_count = 0
  /\ dept_log = <<>>

\* ------------------------------------------------------------------------
\* Specifications
\* ------------------------------------------------------------------------
StoreInit ==
  /\ StoreIdle
  /\ ExtractIdle
  /\ ParseIdle
  /\ DirIdle
  /\ MergeIdle
  /\ BatchIdle
  /\ PubIdle
  /\ RetryIdle
  /\ DeptIdle

StoreNext == \E list \in FacultyLists : store_faculty(list)

SpecStore == StoreInit /\ [][StoreNext]_vars

ExtractInit ==
  /\ StoreIdle
  /\ ParseIdle
  /\ DirIdle
  /\ MergeIdle
  /\ max_retries \in 0..MaxRetriesCfg
  /\ retry_delay \in RetryDelays
  /\ xpc = "loop"
  /\ attempt = 0
  /\ last_error = Null
  /\ events = <<>>
  /\ fetched = NoFetch
  /\ llm_response = NotCalled
  /\ result = NoResult
  /\ BatchIdle
  /\ PubIdle
  /\ RetryIdle
  /\ DeptIdle

ExtractNext ==
  \/ \E o \in GetOutcomes : FetchAttempt(o)
  \/ FetchLoopExit
  \/ \E r \in LLMResponses : ExtractAfterFetch(r)

SpecExtract == ExtractInit /\ [][ExtractNext]_vars

ParseInit ==
  /\ StoreIdle
  /\ ExtractIdle
  /\ DirIdle
  /\ MergeIdle
  /\ page_html \in Pages
  /\ base_url = CsBase
  /\ ppc = "call"
  /\ faculty_list = <<>>
  /\ BatchIdle
  /\ PubIdle
  /\ RetryIdle
  /\ DeptIdle

ParseNext == ParsePage

SpecParse == ParseInit /\ [][ParseNext]_vars

DirInit ==
  /\ StoreIdle
  /\ ExtractIdle
  /\ ParseIdle
  /\ MergeIdle
  /\ server \in Sites
  /\ gpc = "base"
  /\ page_num = 0
  /\ pages = <<>>
  /\ requests = <<>>
  /\ all_faculty = <<>>
  /\ enrich_i = 0
  /\ profile_requests = <<>>
  /\ BatchIdle
  /\ PubIdle
  /\ RetryIdle
  /\ DeptIdle

DirNext ==
  \/ FetchBase
  \/ FetchPage
  \/ PagingExit
  \/ ParsePages
  \/ EnrichProfile
  \/ EnrichExit

SpecDirectory == DirInit /\ [][DirNext]_vars

MergeInit ==
  /\ StoreIdle
  /\ ExtractIdle
  /\ ParseIdle
  /\ DirIdle
  /\ MergeIdle
  /\ BatchIdle
  /\ PubIdle
  /\ RetryIdle
  /\ DeptIdle

MergeNext == \E f \in ScrapedCandidates : MergeFaculty(f)

SpecMerge == MergeInit /\ [][MergeNext]_vars

\* extract_batch on a LabPageExtractor, whose fetcher has the default
\* retry_delay of 1.
BatchInit ==
  /\ StoreIdle
  /\ ParseIdle
  /\ DirIdle
  /\ MergeIdle
  /\ max_retries \in 0..MaxRetriesCfg
  /\ retry_delay = 1
  /\ xpc = "idle"
  /\ attempt = 0
  /\ last_error = Null
  /\ events = <<>>
  /\ fetched = NoFetch
  /\ llm_response = NotCalled
  /\ result = NoResult
  /\ urls \in SeqsUpTo(BatchUrls, MaxUrls)
  /\ delay_between_requests \in BatchDelays
  /\ bpc = "loop"
  /\ batch_i = 0
  /\ results = <<>>
  /\ batch_log = <<>>
  /\ PubIdle
  /\ RetryIdle
  /\ DeptIdle

BatchNext ==
  \/ \E f \in FetchReturns(0) \cup FetchReturns(1), r \in LLMResponses : BatchItem(f, r)
  \/ BatchReturn

SpecBatch == BatchInit /\ [][BatchNext]_vars

\* A run of store_publications calls on one connection.
PubStoreInit ==
  /\ StoreIdle
  /\ ExtractIdle
  /\ ParseIdle
  /\ DirIdle
  /\ MergeIdle
  /\ BatchIdle
  /\ PubIdle
  /\ RetryIdle
  /\ DeptIdle

PubStoreNext == \E list \in PublicationLists : store_publications(list)

SpecPubStore == PubStoreInit /\ [][PubStoreNext]_vars

\* One call of fetch_with_retry.
RetryInit ==
  /\ StoreIdle
  /\ ExtractIdle
  /\ ParseIdle
  /\ DirIdle
  /\ MergeIdle
  /\ BatchIdle
  /\ PubIdle
  /\ fw_name = "Ada Lovelace"
  /\ fw_max_retries \in 0..MaxFwRetries
  /\ initial_backoff \in InitialBackoffs
  /\ backoff = initial_backoff
  /\ fw_attempt = 0
  /\ fpc = "loop"
  /\ fw_log = <<>>
  /\ fw_return = NoReturn
  /\ pub_clock = 1
  /\ DeptIdle

RetryNext == \E api \in ApiBehaviours : FwAttempt(api)

SpecRetry == RetryInit /\ [][RetryNext]_vars

\* One call of scrape_department_publications.
DeptInit ==
  /\ StoreIdle
  /\ ExtractIdle
  /\ ParseIdle
  /\ MergeIdle
  /\ BatchIdle
  /\ PubIdle
  /\ server \in DeptSites
  /\ gpc = "idle"
  /\ page_num = 0
  /\ pages = <<>>
  /\ requests = <<>>
  /\ all_faculty = <<>>
  /\ enrich_i = 0
  /\ profile_requests = <<>>
  /\ fw_name = Null
  /\ fw_max_retries = 0
  /\ initial_backoff = 0
  /\ backoff = 0
  /\ fw_attempt = 0
  /\ fpc = "idle"
  /\ fw_log = <<>>
  /\ fw_return = NoReturn
  /\ pub_clock = 1
  /\ department_key \in DepartmentKeys
  /\ dept_delay \in DeptDelays
  /\ dpc = "start"
  /\ cand_i = 0
  /\ success_count = 0
  /\ error_count = 0
  /\ dept_log = <<>>

\* The listings of DeptSites end before the page ceiling, so the paginator
\* leaves its loop through FetchPage.
DeptNext ==
  \/ DeptStart
  \/ FetchBase
  \/ FetchPage
  \/ ParsePages
  \/ EnrichProfile
  \/ EnrichExit
  \/ DeptFaculty
  \/ DeptCandidate
  \/ \E api \in DeptApi : FwAttempt(api)
  \/ DeptAfterFetch
  \/ DeptSummary

SpecDept == DeptInit /\ [][DeptNext]_vars

\* The persistence scripts: a run of store_faculty calls or a run of
\* store_publications calls.  The two functions write different tables and
\* share no state, so a run exercises one of them.
PersistInit ==
  /\ StoreIdle
  /\ ExtractIdle
  /\ ParseIdle
  /\ DirIdle
  /\ MergeIdle
  /\ BatchIdle
  /\ PubIdle
  /\ RetryIdle
  /\ DeptIdle

PersistNext ==
  \/ pub_written = <<>> /\ StoreNext
  \/ written = <<>> /\ clock = 0 /\ PubStoreNext

SpecPersist == PersistInit /\ [][PersistNext]_vars

\* ========================================================================
\* Claims
\* ========================================================================

\* The value a dict carries for a column of the faculty table.
DictValue(f, column) ==
  CASE column = "website_url" -> f.website
    [] column = "email" -> f.email
    [] column = "department" -> f.department
    [] column = "profile_url" -> f.profile_url

RowValue(row, column) ==
  CASE column = "website_url" -> row.website_url
    [] column = "email" -> row.email
    [] column = "department" -> row.department
    [] column = "profile_url" -> row.profile_url

FacultyColumns == {"website_url", "email", "department", "profile_url"}

\* The most recent non-null value written for a name and column, read off the
\* history from its end; Null when every write of it was null.
RECURSIVE LastNonNull(_, _, _)
LastNonNull(log, name, column) ==
  IF log = <<>> THEN Null
  ELSE LET f == log[Len(log)] IN
       IF f.name = name /\ DictValue(f, column) # Null
         THEN DictValue(f, column)
         ELSE LastNonNull(SubSeq(log, 1, Len(log) - 1), name, column)

\* C1: after any sequence of store_faculty calls there is one row per written
\* name and none twice, and every column of a row holds the most recent
\* non-null value written for that name (null only if none was written).
C1_CoalesceMerge ==
  /\ \A i, j \in 1..Len(faculty) : faculty[i].name = faculty[j].name => i = j
  /\ \A k \in 1..Len(written) : \E i \in 1..Len(faculty) : faculty[i].name = written[k].name
  /\ \A i \in 1..Len(faculty) : \A c \in FacultyColumns :
        RowValue(faculty[i], c) = LastNonNull(written, faculty[i].name, c)

\* C1 witness: a write with website w1 and null email, then a later write with
\* email e1 and null website, leave both w1 and e1 stored.
C1_Witness ==
  /\ Len(written) >= 2
  /\ written[Len(written)].name = "A"
  /\ written[Len(written)].website = Null
  /\ written[Len(written)].email = "e1"
  /\ \E k \in 1..(Len(written) - 1) :
        written[k].name = "A" /\ written[k].website = "w1" /\ written[k].email = Null
  /\ \E i \in 1..Len(faculty) :
        faculty[i].name = "A" /\ faculty[i].website_url = "w1" /\ faculty[i].email = "e1"

\* ------------------------------------------------------------------------
\* HTMLFetcher.fetch and LabPageExtractor.extract
\* ------------------------------------------------------------------------
IsGet(p) == events[p].kind = "get"
IsSleep(p) == events[p].kind = "sleep"

\* The statuses the specification calls permanent.
PermanentStatuses == {404, 403, 410}

\* The attempt recorded at p failed in a way the specification calls transient.
FailedRetryable(p) ==
  /\ IsGet(p)
  /\ events[p].what.kind # "ok"
  /\ ~ (events[p].what.kind = "http" /\ events[p].what.status \in PermanentStatuses)

\* C2: fetch makes at most max_retries GET attempts, numbered 1, 2, ...; the
\* k-th attempt, when it fails retryably and k <= max_retries - 1, is followed
\* at once by a sleep of retry_delay * k; nothing else is followed by a sleep
\* (not the last attempt, not a successful one) and every sleep follows a GET.
C2_LinearBackoff ==
  /\ Cardinality({p \in 1..Len(events) : IsGet(p)}) <= max_retries
  /\ \A p \in 1..Len(events) : IsGet(p) =>
       /\ events[p].k = Cardinality({q \in 1..p : IsGet(q)})
       /\ IF FailedRetryable(p) /\ events[p].k <= max_retries - 1
            THEN /\ p < Len(events)
                 /\ IsSleep(p + 1)
                 /\ events[p + 1].k = retry_delay * events[p].k
            ELSE p = Len(events) \/ ~ IsSleep(p + 1)
  /\ \A p \in 1..Len(events) : IsSleep(p) => p > 1 /\ IsGet(p - 1)

\* C2 witness: three failed attempts with max_retries = 3: sleeps of
\* retry_delay and 2 * retry_delay, none after the third attempt.
C2_Witness ==
  /\ max_retries = 3 /\ retry_delay = 2 /\ xpc = "fetched"
  /\ Len(events) = 5
  /\ IsGet(1) /\ IsSleep(2) /\ events[2].k = 2
  /\ IsGet(3) /\ IsSleep(4) /\ events[4].k = 4
  /\ FailedRetryable(5)

\* The reason fetch reports for an HTTP error status.
HttpReason(status) ==
  CASE status = 404 -> "HTTP 404" [] status = 403 -> "HTTP 403" [] status = 410 -> "HTTP 410"
    [] OTHER -> "HTTP other"

\* C3: an attempt that fails with HTTP 404, 403 or 410 is the last thing fetch
\* does (no further attempt, no sleep) and fetch returns (None, "HTTP <status>");
\* after any other failure with attempts remaining fetch has not returned and
\* the next attempt is due.
C3_PermanentNoRetry ==
  \A p \in 1..Len(events) : IsGet(p) /\ events[p].what.kind # "ok" =>
    IF events[p].what.kind = "http" /\ events[p].what.status \in PermanentStatuses
      THEN /\ \A q \in (p + 1)..Len(events) : ~ IsGet(q) /\ ~ IsSleep(q)
           /\ xpc \in {"fetched", "done"}
           /\ fetched.html_none
           /\ fetched.error = HttpReason(events[p].what.status)
      ELSE (events[p].k < max_retries /\ \A q \in (p + 1)..Len(events) : ~ IsGet(q))
             => xpc = "loop" /\ attempt = events[p].k /\ attempt < max_retries

\* C3 witness: a timeout, then a 410 on the second of three attempts ends fetch.
C3_Witness ==
  /\ max_retries = 3 /\ xpc = "fetched"
  /\ Len(events) = 3
  /\ events[1].what.kind = "timeout"
  /\ IsGet(3) /\ events[3].what.kind = "http" /\ events[3].what.status = 410
  /\ fetched.error = "HTTP 410"

ContentUnset(r) ==
  /\ r.research_summary = Null
  /\ r.research_areas = <<>>
  /\ r.lab_url = NoUrl /\ r.publications_url = NoUrl /\ r.personal_site_url = NoUrl

LLMCalled == \E p \in 1..Len(events) : events[p].kind = "llm"

\* C9 (as claimed): every returned result with extraction_successful = false
\* has all content fields unset and an error message, and a fetch failure
\* (fetch returned no html) yields such a result, carrying the fetch error,
\* without an LLM call.
C9_FailureResult ==
  xpc = "done" =>
    /\ (result.raised = Null /\ ~ result.extraction_successful) =>
          ContentUnset(result) /\ result.error_message # NoMessage
    /\ fetched.html_none =>
          /\ result.raised = Null
          /\ ~ result.extraction_successful
          /\ ContentUnset(result)
          /\ fetched.error # Null
          /\ result.error_message = Message("Failed to fetch page: ", fetched.error)
          /\ ~ LLMCalled

\* C10: when fetch succeeded and the cleaned text is blank, extract returns a
\* successful result with every content field unset and an error message,
\* and makes no LLM call.
C10_EmptyContent ==
  (xpc = "done" /\ ~ fetched.html_none /\ clean_html_for_llm(fetched.html) = <<>>) =>
    /\ result.raised = Null
    /\ result.extraction_successful
    /\ ContentUnset(result)
    /\ result.error_message # NoMessage
    /\ result.error_message.text # Null
    /\ ~ LLMCalled

\* C10 witness: a fetched page with only script and nav elements.
C10_Witness ==
  /\ xpc = "done"
  /\ ~ fetched.html_none
  /\ Len(fetched.html) = 2 /\ fetched.html[1].tag = "script"
  /\ result.extraction_successful
  /\ result.error_message.text = "Page content was empty after cleaning"

\* ------------------------------------------------------------------------
\* parse_faculty_generic
\* ------------------------------------------------------------------------
NoTwoSameUrl(list) ==
  \A i, j \in 1..Len(list) : list[i].profile_url = list[j].profile_url => i = j

\* What each strategy yields on the page when run on its own.
StructuredAlone == StructuredStrategy(page_html, base_url, Acc(<<>>, {})).list
HeuristicAlone == HeuristicStrategy(Anchors(page_html), base_url, Acc(<<>>, {})).list

\* C6: the list parse_faculty_generic returns has no profile_url twice, and
\* for a profile_url that both strategies yield, the kept candidate carries
\* the structured strategy's name, email and department.
C6_DedupPrefersStructured ==
  ppc = "parsed" =>
    /\ NoTwoSameUrl(faculty_list)
    /\ \A i \in 1..Len(StructuredAlone) : \A j \in 1..Len(HeuristicAlone) :
         StructuredAlone[i].profile_url = HeuristicAlone[j].profile_url =>
           \E k \in 1..Len(faculty_list) :
             /\ faculty_list[k].profile_url = StructuredAlone[i].profile_url
             /\ faculty_list[k].name = StructuredAlone[i].name
             /\ faculty_list[k].email = StructuredAlone[i].email
             /\ faculty_list[k].department = StructuredAlone[i].department

\* C6 witness: a card and a separate anchor with the same profile URL but
\* another name and email; the one kept candidate is the card's.
C6_Witness ==
  /\ ppc = "parsed"
  /\ Len(page_html) = 2
  /\ page_html[1].kind = "link" /\ page_html[1].text = "Jane Smith"
  /\ page_html[2].kind = "row" /\ page_html[2].text = "Jane A. Smith"
  /\ Len(faculty_list) = 1
  /\ faculty_list[1].name = "Jane A. Smith"
  /\ faculty_list[1].email = "jsmith@cornell.edu"
  /\ faculty_list[1].department = "Computing and Information Science"

\* ------------------------------------------------------------------------
\* extract_all_pages, parse_all_faculty_pages
\* ------------------------------------------------------------------------
Returned == gpc \in {"fetched", "enrich", "done"}

\* C4 (as claimed): extract_all_pages returns at most 20 page bodies.
C4_AtMostTwentyPages == Returned => Len(pages) <= 20

\* The body the server gives for request n, as extract_all_pages sees it.
Body(n) == IF DirectoryGet(server, n).raised THEN EmptyText ELSE DirectoryGet(server, n).text

HasViewsRow(text) == \E i \in 1..Len(text.items) : text.items[i].kind = "row"

HasPeopleLink(text) ==
  \E i \in 1..Len(text.items) :
    /\ text.items[i].has_link
    /\ text.items[i].href.scheme \notin {Null, ""}
    /\ \E k \in 1..Len(text.items[i].href.path.segs) :
         /\ text.items[i].href.path.segs[k] = "people"
         /\ (k < Len(text.items[i].href.path.segs) \/ text.items[i].href.path.slash)

\* Request n is one the claim says pagination stops at.
StopsAt(n) ==
  \/ Body(n).blank
  \/ n >= 1 /\ ~ HasViewsRow(Body(n)) /\ ~ HasPeopleLink(Body(n))

\* C5: the requests are the base URL, then ?page=1, 2, ... in order; the first
\* request with no content (or, for ?page=N, with neither a views-row nor a
\* /people/ link) is the last request and its body is not returned; the
\* bodies of all requests before it are the result, in request order.
C5_ContiguousPrefix ==
  /\ \A i \in 1..Len(requests) : requests[i] = i - 1
  /\ Len(pages) <= Len(requests)
  /\ \A i \in 1..Len(pages) : pages[i] = Body(requests[i])
  /\ \A i \in 1..Len(requests) :
       IF StopsAt(requests[i])
         THEN i = Len(requests) /\ Len(pages) = i - 1 /\ Returned
         ELSE Len(pages) >= i
  /\ Returned =>
       \/ StopsAt(requests[Len(requests)])
       \/ Len(requests) = PageCeiling + 1

\* C5 witness: a two-page directory whose second page has profile links but no
\* views-row: both pages are returned, the request for ?page=2 ended it.
C5_Witness ==
  /\ Returned
  /\ server.mode = "zero" /\ server.chunks = 2 /\ server.base = "ok"
  /\ server.beyond = "no listing"
  /\ requests = <<0, 1, 2>>
  /\ Len(pages) = 2
  /\ ~ HasViewsRow(pages[2])

\* C7 (as claimed): one directory run returns no profile_url twice and
\* requests no profile page twice.
C7_MergedAcrossPages ==
  /\ gpc = "done" => NoTwoSameUrl(all_faculty)
  /\ \A i, j \in 1..Len(profile_requests) :
       profile_requests[i] = profile_requests[j] => i = j

\* ------------------------------------------------------------------------
\* The merge-by-name loop
\* ------------------------------------------------------------------------
\* The names of a list of candidates, each once, in first-seen order.
RECURSIVE FirstSeen(_, _)
FirstSeen(list, seen) ==
  IF list = <<>> THEN <<>>
  ELSE IF Head(list).name \in seen THEN FirstSeen(Tail(list), seen)
  ELSE <<Head(list).name>> \o FirstSeen(Tail(list), seen \cup {Head(list).name})

OnePerNameFirstSeen ==
  /\ Len(merged) = Len(FirstSeen(occurrences, {}))
  /\ \A i \in 1..Len(merged) : merged[i].name = FirstSeen(occurrences, {})[i]

\* C8 (as claimed): one record per distinct name in first-seen order, and a
\* record's website or email, once non-null, is never changed by a later
\* occurrence (it is filled only while null).
C8_NonNullNeverChanged ==
  /\ [] OnePerNameFirstSeen
  /\ [][ \A i \in 1..Len(merged) :
           /\ merged[i].website # Null => merged'[i].website = merged[i].website
           /\ merged[i].email # Null => merged'[i].email = merged[i].email ]_vars

\* The indices of the occurrences of a name.
OccurrencesOf(name) == {k \in 1..Len(occurrences) : occurrences[k].name = name}

Least(S) == CHOOSE k \in S : \A j \in S : k <= j

\* The value the merge leaves in a field: the first non-empty value among the
\* occurrences of the name, or the first occurrence's value (None or "") when
\* no occurrence has one.
MergedValue(name, values) ==
  LET occ == OccurrencesOf(name)
      filled == {k \in occ : values[k] # Null /\ values[k] # ""}
  IN IF filled # {} THEN values[Least(filled)] ELSE values[Least(occ)]

\* C8 (amended): one record per distinct name in first-seen order; website
\* and email hold the first non-empty value among the name's occurrences (a
\* null or empty value is filled by a later non-empty one, a non-empty value
\* never changes); department and profile_url stay the first occurrence's.
C8_MergeByName ==
  /\ OnePerNameFirstSeen
  /\ \A i \in 1..Len(merged) :
       /\ merged[i].website =
            MergedValue(merged[i].name, [k \in 1..Len(occurrences) |-> occurrences[k].website])
       /\ merged[i].email =
            MergedValue(merged[i].name, [k \in 1..Len(occurrences) |-> occurrences[k].email])
       /\ merged[i].department = occurrences[Least(OccurrencesOf(merged[i].name))].department
       /\ merged[i].profile_url = occurrences[Least(OccurrencesOf(merged[i].name))].profile_url

\* C8 witness: A is seen with an empty website and email e1, then with website
\* w2 and email e2: the website is filled, the email is kept.
C8_Witness ==
  /\ Len(occurrences) = 3
  /\ occurrences[1].name = "B"
  /\ occurrences[2].name = "A" /\ occurrences[2].website = "" /\ occurrences[2].email = "e1"
  /\ occurrences[3].name = "A" /\ occurrences[3].website = "w2" /\ occurrences[3].email = "e2"
  /\ Len(merged) = 2
  /\ merged[2].name = "A" /\ merged[2].website = "w2" /\ merged[2].email = "e1"

\* ------------------------------------------------------------------------
\* extract: exceptions, URL resolution, nullable fields
\* ------------------------------------------------------------------------
\* C11 (as claimed): whatever fetch returned, whatever the page and whatever
\* extract_structured did, extract returns a LabPageExtractionResult and
\* raises nothing.
C11_NeverRaises ==
  xpc = "done" => result.raised = Null

UrlFields(r) == {r.lab_url, r.publications_url, r.personal_site_url}

\* An absolute URL of scheme http or https.
IsAbsoluteHttp(u) == u.scheme \in {"http", "https"} /\ u.host \notin {Null, "", Absent}

\* C12 (as claimed): in a successful result every non-null URL field is an
\* absolute http or https URL, and a field the LLM returned with http:// or
\* https:// in front is the LLM's value unchanged.
C12_HttpUrlsOnly ==
  (xpc = "done" /\ result.raised = Null /\ result.extraction_successful) =>
    /\ \A u \in UrlFields(result) : u # NoUrl => IsAbsoluteHttp(u)
    /\ llm_response.kind = "json" =>
         /\ IsHttp(llm_response.lab_url) => result.lab_url = llm_response.lab_url
         /\ IsHttp(llm_response.publications_url) =>
              result.publications_url = llm_response.publications_url
         /\ IsHttp(llm_response.personal_site_url) =>
              result.personal_site_url = llm_response.personal_site_url

\* A JSON object whose five target fields are each of the expected type, null
\* or absent.
NullableOnly(r) ==
  /\ r.kind = "json"
  /\ r.research_summary # WrongType
  /\ r.research_areas # WrongAreas
  /\ WrongUrl \notin UrlFields(r)

\* C13 (as claimed): when extract_structured returns a JSON object whose
\* target fields are well-typed, null or absent, extract returns a successful
\* result in which each null or absent field is unset.
C13_NullFieldsNotFatal ==
  (xpc = "done" /\ NullableOnly(llm_response)) =>
    /\ result.raised = Null
    /\ result.extraction_successful
    /\ llm_response.research_summary \in {Null, Absent} => result.research_summary = Null
    /\ llm_response.research_areas \in {NoAreas, AbsentAreas} => result.research_areas = <<>>
    /\ llm_response.lab_url \in {NoUrl, AbsentUrl} => result.lab_url = NoUrl
    /\ llm_response.publications_url \in {NoUrl, AbsentUrl} => result.publications_url = NoUrl
    /\ llm_response.personal_site_url \in {NoUrl, AbsentUrl} =>
         result.personal_site_url = NoUrl
\* ------------------------------------------------------------------------
\* extract_batch
\* ------------------------------------------------------------------------
\* What fetch returns in the step-by-step model is what FetchReturns lists.
FetchReturnsSound ==
  xpc \in {"fetched", "done"} => fetched \in FetchReturns(max_retries)

\* The log of a complete batch over n URLs with delay d: extract 1, sleep,
\* extract 2, sleep, ..., extract n.
RECURSIVE BatchSchedule(_, _, _)
BatchSchedule(i, n, d) ==
  IF i > n THEN <<>>
  ELSE IF i = n THEN << BatchEvent("extract", i) >>
  ELSE << BatchEvent("extract", i), BatchEvent("sleep", d) >> \o BatchSchedule(i + 1, n, d)

\* The part of the claim about a batch that has returned.
BatchReturnedInOrder ==
  bpc = "done" =>
    /\ Len(results) = Len(urls)
    /\ \A i \in 1..Len(urls) : results[i].source_url = urls[i]
    /\ batch_log = BatchSchedule(1, Len(urls), delay_between_requests)

\* C14 (as claimed): extract_batch returns one result per URL, in input
\* order, with source_url equal to the input URL; its log is extract, sleep,
\* extract, ..., extract with exactly n-1 sleeps of the fixed delay; and no
\* item, failed or not, stops the batch before its last URL.
C14_BatchInOrder ==
  /\ bpc # "raised"
  /\ BatchReturnedInOrder
\* ------------------------------------------------------------------------
\* store_publications
\* ------------------------------------------------------------------------
PubKeys(log) == { <<log[i].paper_id, log[i].professor_name>> : i \in 1..Len(log) }

\* The latest record stored under a key.
LatestStored(log, key) ==
  LET at == { i \in 1..Len(log) : <<log[i].paper_id, log[i].professor_name>> = key }
  IN log[CHOOSE i \in at : \A j \in at : j <= i]

RowsOf(table, key) ==
  { i \in 1..Len(table) : <<table[i].paper_id, table[i].professor_name>> = key }

\* C20 (as claimed): after any sequence of store_publications calls there is
\* exactly one row per (paper_id, professor_name) stored so far, and it
\* equals the latest record stored under that key in every field, author_id
\* and fetched_at (in ISO text) included.
C20_LatestSupersedes ==
  /\ \A i \in 1..Len(publications) :
       <<publications[i].paper_id, publications[i].professor_name>> \in PubKeys(pub_written)
  /\ \A key \in PubKeys(pub_written) :
       /\ Cardinality(RowsOf(publications, key)) = 1
       /\ \A i \in RowsOf(publications, key) :
            publications[i] = PubValuesRow(LatestStored(pub_written, key))

\* The same without author_id: what the UPDATE list covers.
LatestButAuthor ==
  \A key \in PubKeys(pub_written) :
    /\ Cardinality(RowsOf(publications, key)) = 1
    /\ \A i \in RowsOf(publications, key) :
         [publications[i] EXCEPT !.author_id = Null] =
           [PubValuesRow(LatestStored(pub_written, key)) EXCEPT !.author_id = Null]
\* ------------------------------------------------------------------------
\* fetch_with_retry
\* ------------------------------------------------------------------------
IsFetch(p) == p \in 1..Len(fw_log) /\ fw_log[p].kind = "fetch"
IsBackoff(p) == p \in 1..Len(fw_log) /\ fw_log[p].kind = "sleep"

Fetches == { p \in 1..Len(fw_log) : IsFetch(p) }
Backoffs == { p \in 1..Len(fw_log) : IsBackoff(p) }

RECURSIVE Pow2(_)
Pow2(k) == IF k = 0 THEN 1 ELSE 2 * Pow2(k - 1)

RECURSIVE TotalSleep(_)
TotalSleep(log) ==
  IF log = <<>> THEN 0
  ELSE (IF Head(log).kind = "sleep" THEN Head(log).k ELSE 0) + TotalSleep(Tail(log))

\* The for loop never runs out: a call in the loop has an attempt left.
LoopNeverExhausted == fpc = "loop" => fw_attempt <= fw_max_retries

\* C15: the log of a fetch_with_retry call is fetch, sleep, fetch, sleep, ...:
\* a rate-limited fetch with retries left is followed at once by one sleep and
\* then by the next attempt, the k-th sleep lasts initial_backoff * 2^(k-1),
\* there are at most max_retries sleeps and max_retries + 1 fetches, and any
\* other fetch result ends the log and is the value returned.
C15_ExponentialBackoff ==
  fpc \in {"loop", "returned"} =>
    /\ LoopNeverExhausted
    /\ Cardinality(Backoffs) <= fw_max_retries
    /\ Cardinality(Fetches) <= fw_max_retries + 1
    /\ \A p \in 1..Len(fw_log) :
         /\ IsFetch(p) <=> p % 2 = 1
         /\ IsFetch(p) => fw_log[p].k = (p - 1) \div 2
         /\ IsBackoff(p) =>
              /\ RateLimited(fw_log[p - 1].ret.error)
              /\ fw_log[p].k = initial_backoff * Pow2((p \div 2) - 1)
         /\ (IsFetch(p) /\ RateLimited(fw_log[p].ret.error) /\ fw_log[p].k < fw_max_retries) =>
              /\ IsBackoff(p + 1)
              /\ IF p + 1 = Len(fw_log)
                   THEN fpc = "loop" /\ fw_attempt = fw_log[p].k + 1
                   ELSE IsFetch(p + 2)
         /\ (IsFetch(p) /\ ~ (RateLimited(fw_log[p].ret.error) /\ fw_log[p].k < fw_max_retries)) =>
              /\ p = Len(fw_log)
              /\ fpc = "returned"
              /\ fw_return = fw_log[p].ret
    /\ (fpc = "returned") => Len(fw_log) > 0 /\ IsFetch(Len(fw_log))
    /\ (fpc = "loop") => (fw_log = <<>> \/ IsBackoff(Len(fw_log)))

\* C15 witness: three rate-limited attempts, sleeps of 60, 120 and 240
\* seconds, and a fourth attempt that finds no author.
C15_Witness ==
  /\ fpc = "returned"
  /\ fw_max_retries = 3
  /\ initial_backoff = 60
  /\ Len(fw_log) = 7
  /\ fw_log[2].k = 60 /\ fw_log[4].k = 120 /\ fw_log[6].k = 240
  /\ fw_return.error.text = "Author not found on Semantic Scholar: "

MaxRetriesExceeded == Err("Max retries exceeded due to rate limiting", "")

\* Every attempt the call could make was made and was rate-limited.
CeilingExhausted ==
  /\ fpc = "returned"
  /\ Cardinality(Fetches) = fw_max_retries + 1
  /\ \A p \in Fetches : RateLimited(fw_log[p].ret.error)

\* C16 (as claimed): when all max_retries + 1 attempts are rate-limited,
\* fetch_with_retry returns count 0 with the "max retries exceeded" error.
C16_TerminalError ==
  CeilingExhausted => fw_return = Returned2(0, MaxRetriesExceeded)

\* The fetch results of the log, in order.
FetchResults == [i \in 1..Cardinality(Fetches) |-> fw_log[2 * i - 1].ret]

Success(ret) == ret.error = NoErr /\ ret.count > 0

ThreeLimitsThenSuccess ==
  /\ fw_max_retries = 3
  /\ fpc = "returned"
  /\ Cardinality(Fetches) = 4
  /\ \A i \in 1..3 : RateLimited(FetchResults[i].error)
  /\ Success(FetchResults[4])

\* C17 (as claimed): three rate-limited attempts and then a success, with
\* max_retries = 3, sleep initial + 2 * initial in total and return the
\* success.
C17_TwoSleeps ==
  ThreeLimitsThenSuccess =>
    /\ TotalSleep(fw_log) = initial_backoff + 2 * initial_backoff
    /\ fw_return = FetchResults[4]

\* C17 (amended): with max_retries = 3, once the first three attempts are
\* rate-limited the call has slept three times, initial + 2 * initial +
\* 4 * initial in total, before a fourth attempt; when that attempt succeeds
\* its (count, no error) is returned.
C17_ThreeSleeps ==
  (fw_max_retries = 3 /\ fpc \in {"loop", "returned"} /\ Cardinality(Fetches) >= 3
     /\ \A i \in 1..3 : RateLimited(FetchResults[i].error)) =>
    /\ Cardinality(Backoffs) = 3
    /\ TotalSleep(fw_log) = initial_backoff + 2 * initial_backoff + 4 * initial_backoff
    /\ (fpc = "returned" /\ Success(FetchResults[4])) =>
         /\ fw_return = FetchResults[4]
         /\ fw_return.error = NoErr

\* C17 witness: 429, 429, 429, then two papers stored.
C17_Witness ==
  /\ ThreeLimitsThenSuccess
  /\ initial_backoff = 60
  /\ TotalSleep(fw_log) = 420
  /\ fw_return = Returned2(2, NoErr)
  /\ Len(publications) = 2
\* ------------------------------------------------------------------------
\* scrape_department_publications
\* ------------------------------------------------------------------------
\* The log of a run over n candidates has, for candidate i, the
\* fetch_with_retry call, its return and, if i < n, the sleep: 3n - 1 entries.
ExpectedKind(p) ==
  CASE (p - 1) % 3 = 0 -> "fetch" [] (p - 1) % 3 = 1 -> "returned" [] OTHER -> "sleep"

ExpectedCandidate(p) == ((p - 1) \div 3) + 1

CandidatesInOrder ==
  LET n == Len(all_faculty) IN
  /\ dept_log # <<>> => Len(dept_log) <= 3 * n - 1
  /\ \A p \in 1..Len(dept_log) :
       /\ dept_log[p].kind = ExpectedKind(p)
       /\ dept_log[p].i = ExpectedCandidate(p)
       /\ dept_log[p].professor = all_faculty[ExpectedCandidate(p)].name
       /\ dept_log[p].kind = "sleep" => dept_log[p].seconds = dept_delay
  /\ dpc = "done" =>
       /\ Len(dept_log) = 3 * n - 1
       /\ dept_log[Len(dept_log)].kind = "returned"
       /\ Cardinality({ p \in 1..Len(dept_log) : dept_log[p].kind = "sleep" }) = n - 1
       /\ Cardinality({ p \in 1..Len(dept_log) : dept_log[p].kind = "fetch" }) = n

\* Steps a run in the candidate loop can still take before the summary is
\* printed: per candidate the call, at most max_retries + 1 attempts and the
\* return.
StepsPerCandidate == DefaultMaxRetries + 3

StepsLeft ==
  LET n == Len(all_faculty) IN
  CASE dpc = "loop" -> (n - cand_i + 1) * StepsPerCandidate + 1
    [] dpc = "fetching" ->
         (n - cand_i) * StepsPerCandidate + 1
           + (IF fpc = "returned" THEN 1 ELSE fw_max_retries - fw_attempt + 2)
    [] OTHER -> 0

InCandidateLoop == dpc \in {"loop", "fetching"}

\* The guards of the steps of the candidate loop: DeptCandidate, DeptSummary,
\* DeptAfterFetch and FwAttempt.
CanStep ==
  \/ dpc = "loop" /\ cand_i <= Len(all_faculty)
  \/ dpc = "loop" /\ cand_i > Len(all_faculty)
  \/ dpc = "fetching" /\ fpc = "returned"
  \/ dpc = "fetching" /\ fpc = "loop" /\ fw_attempt <= fw_max_retries

\* C18: scrape_department_publications calls fetch_with_retry once per
\* candidate, in the order of the faculty list, whatever the earlier
\* candidates returned; it sleeps the delay after every candidate but the
\* last, n - 1 times; and a run that entered the candidate loop reaches the
\* final summary: it can always take a step, and every step brings the
\* summary nearer.
C18_EveryCandidateOnce ==
  /\ [] CandidatesInOrder
  /\ [] (InCandidateLoop => StepsLeft > 0 /\ CanStep)
  /\ [][InCandidateLoop => StepsLeft' < StepsLeft]_vars

\* C18 witness: three candidates; the first exhausts its retries on rate
\* limits, the second is not found, the third stores two papers; two sleeps.
C18_Witness ==
  /\ dpc = "done"
  /\ Len(all_faculty) = 3
  /\ Len(dept_log) = 8
  /\ RateLimited(dept_log[2].ret.error)
  /\ dept_log[5].ret.error.text = "Author not found on Semantic Scholar: "
  /\ dept_log[8].ret = Returned2(2, NoErr)
  /\ dept_log[3].kind = "sleep" /\ dept_log[6].kind = "sleep"

\* C19: with a key that is not in DEPARTMENT_URLS the call returns at the key
\* check: no directory or profile page is requested, fetch_with_retry is not
\* called, nothing is slept and no table is written.
C19_UnknownKeyNoWork ==
  (dpc # "idle" /\ department_key \notin DEPARTMENT_URLS) =>
    /\ dpc \in {"start", "unknown key"}
    /\ gpc = "idle"
    /\ requests = <<>> /\ pages = <<>> /\ profile_requests = <<>> /\ all_faculty = <<>>
    /\ fpc = "idle" /\ fw_log = <<>>
    /\ dept_log = <<>>
    /\ publications = <<>> /\ pub_written = <<>>
    /\ faculty = <<>> /\ written = <<>>

\* C19 witness: the call with the key "physics" has returned.
C19_Witness ==
  /\ dpc = "unknown key"
  /\ department_key = "physics"
  /\ requests = <<>>
\* The rows of the faculty table without the update timestamp.
ButUpdatedAt(table) ==
  [i \in DOMAIN table |-> [table[i] EXCEPT !.updated_at = 0]]

\* The argument of the latest store_faculty call, and of the call a step makes.
LastFacultyCall == SubSeq(written, Len(written) - stored + 1, Len(written))
ThisFacultyCall == SubSeq(written', Len(written) + 1, Len(written'))
LastPublicationsCall ==
  SubSeq(pub_written, Len(pub_written) - pub_stored + 1, Len(pub_written))
ThisPublicationsCall == SubSeq(pub_written', Len(pub_written) + 1, Len(pub_written'))

\* From any table the run reaches, a call with a two-item list followed by the
\* same call gives the rows of the single call (update timestamp aside), so
\* as many of them.  Each table is looked at in the runs that write it.
RerunOfPairChangesNothing ==
  /\ pub_written = <<>> =>
       \A a, b \in FacultyDicts :
         LET once == StoreFacultyRows(faculty, <<a, b>>, clock)
         IN ButUpdatedAt(StoreFacultyRows(once, <<a, b>>, clock + 1)) = ButUpdatedAt(once)
  /\ written = <<>> =>
       \A a, b \in Publications :
         LET once == StorePublicationsRows(publications, <<a, b>>)
         IN StorePublicationsRows(once, <<a, b>>) = once

\* A step that issues the call of the step before it once more.
FacultyCallRepeated ==
  clock > 0 /\ clock' = clock + 1 /\ ThisFacultyCall = LastFacultyCall

PublicationsCallRepeated ==
  /\ pub_written # <<>>
  /\ clock' = clock /\ pub_stored' = Len(pub_written') - Len(pub_written)
  /\ ThisPublicationsCall = LastPublicationsCall

\* C21: issuing the same store_faculty or store_publications call a second
\* time leaves every stored row and the number of rows unchanged, apart from
\* the update timestamp, and returns the same count.
C21_RerunIdempotent ==
  /\ [] RerunOfPairChangesNothing
  /\ [][FacultyCallRepeated =>
          /\ ButUpdatedAt(faculty') = ButUpdatedAt(faculty)
          /\ Len(faculty') = Len(faculty)
          /\ stored' = stored]_vars
  /\ [][PublicationsCallRepeated =>
          /\ publications' = publications
          /\ pub_stored' = pub_stored]_vars

\* C21 witness: store_faculty has been called twice with the same one-dict
\* list; the row carries the second call's timestamp.
C21_Witness ==
  /\ clock = 2 /\ stored = 1
  /\ Len(written) = 2 /\ written[1] = written[2]
  /\ written[1].website = "w1"
  /\ Len(faculty) = 1 /\ faculty[1].updated_at = 1 /\ faculty[1].website_url = "w1"
\* The candidates parse_faculty_generic returned for the fetched pages.
Parsed == ParseAll(pages, CsBase)

HasProfileUrl(f) == f.profile_url # NoHref

\* The profile URLs of the candidates of a list that have one, in order.
ProfileUrls(list) ==
  LET with == SelectSeq(list, HasProfileUrl)
  IN [i \in 1..Len(with) |-> with[i].profile_url]

RequestFailed(resp) == resp.raised \/ resp.status # 200

\* The hrefs of the links under a website label.
LabelledHrefs(items) ==
  { items[i].href : i \in { j \in 1..Len(items) :
      items[j].label \in WebsiteLabels /\ items[j].href # Null } }

TemplateMatches(resp) ==
  LabelledHrefs(resp.items) # {} \/ LabelledHrefs(resp.blocks) # {}

\* The candidates the profile loop has gone through.
Enriched == IF gpc = "done" THEN Len(all_faculty) ELSE enrich_i - 1

\* C22: in parse_all_faculty_pages each candidate with a profile URL triggers
\* exactly one profile request; when the request fails (request error or
\* non-200 status) or neither template matches, the candidate is kept with
\* website null; every later candidate is still enriched; the output holds
\* exactly the parsed candidates in parse order.
C22_EnrichmentNotFatal ==
  gpc \in {"enrich", "done"} =>
    /\ gpc = "done" => enrich_i = Len(all_faculty) + 1
    /\ [i \in 1..Len(all_faculty) |-> [all_faculty[i] EXCEPT !.website = Null]] = Parsed
    /\ profile_requests = ProfileUrls(SubSeq(all_faculty, 1, Enriched))
    /\ \A i \in 1..Enriched :
         LET f == all_faculty[i]
             resp == ProfileGet(server, f.profile_url)
         IN IF ~ HasProfileUrl(f) THEN f.website = Null
            ELSE IF RequestFailed(resp) \/ ~ TemplateMatches(resp) THEN f.website = Null
            ELSE f.website \in LabelledHrefs(resp.items) \cup LabelledHrefs(resp.blocks)

\* C22 witness: the first candidate's profile request raised, the candidate is
\* kept with website null, and the two candidates after it were requested and
\* the second has its website.
C22_Witness ==
  /\ gpc = "done"
  /\ server.profiles = "flaky"
  /\ Len(all_faculty) = 3 /\ Len(profile_requests) = 3
  /\ all_faculty[1].name = "Jane A. Smith" /\ all_faculty[1].website = Null
  /\ all_faculty[2].name = "Ada Lovelace" /\ all_faculty[2].website = "https://ada.example"
  /\ all_faculty[3].website = Null
\* C23: every call of HTMLFetcher.fetch returns a pair in which exactly one
\* component is null: (content, None) on success, or (None, reason) with reason
\* a non-null, non-empty string on failure, for every max_retries >= 0 and
\* every failure kind.
C23_ExactlyOneNull ==
  xpc \notin {"idle", "loop"} =>
    \/ ~ fetched.html_none /\ fetched.error = Null
    \/ fetched.html_none /\ fetched.error # Null /\ fetched.error # ""
\* A request that raised or was answered with an HTTP error status.
FailedRequest(n) ==
  DirectoryGet(server, n).raised \/ DirectoryGet(server, n).status # 200

\* C24: extract_all_pages never returns the body of a failed request: when the
\* base request raises or answers with an HTTP error status the result is the
\* empty list, and a ?page=N response with an HTTP error status ends
\* pagination without being added.
C24_NoFailedBody ==
  /\ \A i \in 1..Len(pages) : ~ FailedRequest(requests[i])
  /\ \A i \in 1..Len(requests) :
       FailedRequest(requests[i]) =>
         /\ i = Len(requests)
         /\ Len(pages) = i - 1
         /\ gpc # "paging"
\* The candidates whose fetch_with_retry has returned, by what it returned.
ReturnedEvents == { p \in 1..Len(dept_log) : dept_log[p].kind = "returned" }
ReturnedError == { p \in ReturnedEvents : dept_log[p].ret.error # NoErr }
ReturnedStored ==
  { p \in ReturnedEvents : dept_log[p].ret.error = NoErr /\ dept_log[p].ret.count > 0 }
ReturnedNothing ==
  { p \in ReturnedEvents : dept_log[p].ret.error = NoErr /\ dept_log[p].ret.count = 0 }

\* C25: at the end of scrape_department_publications each of the n candidates
\* has been counted in at most one of success_count and error_count:
\* error_count is the number of candidates whose fetch_with_retry returned an
\* error, success_count the number that returned no error and a positive
\* stored count, and success_count + error_count <= n with equality exactly
\* when no candidate returned (0, no error).
C25_CountsPartition ==
  dpc = "done" =>
    LET n == Len(all_faculty) IN
    /\ \A i \in 1..n : Cardinality({ p \in ReturnedEvents : dept_log[p].i = i }) = 1
    /\ Cardinality(ReturnedEvents) = n
    /\ error_count = Cardinality(ReturnedError)
    /\ success_count = Cardinality(ReturnedStored)
    /\ success_count + error_count <= n
    /\ success_count + error_count = n <=> ReturnedNothing = {}

\* C25 witness: a run over three candidates: one ended in an error, two stored
\* publications.
C25_Witness ==
  /\ dpc = "done"
  /\ Len(all_faculty) = 3
  /\ error_count = 1 /\ success_count = 2
  /\ dept_log[2].ret.error # NoErr
====
